---- MODULE Spec2Model ----
(***************************************************************************)
(* Tegra241 CMDQ-Virtualization register file (hw/arm/tegra241-cmdqv.c)    *)
(* and the iommufd requests it issues (backends/iommufd.c).                *)
(*                                                                         *)
(* A register value (uint32_t / uint64_t) is the set of its set bit        *)
(* positions, a subset of 0..63: & is \cap, | is \cup, & ~m is \ m, the    *)
(* conversion to uint32_t is \cap 0..31.  Byte offsets are integers.       *)
(*                                                                         *)
(* A 128-entry array and the live page are kept as the function of their  *)
(* non-zero entries: an index outside the domain holds 0 (NULL for the    *)
(* vqueue pointers).                                                      *)
(***************************************************************************)
EXTENDS Integers, Sequences, FiniteSets, TLC

(* ------------------------------------------------------------------ *)
(* Integer and bit helpers                                            *)
(* ------------------------------------------------------------------ *)
RECURSIVE Pow2(_)
Pow2(n) == IF n = 0 THEN 1 ELSE 2 * Pow2(n - 1)

\* the bit set of a literal below 2^31
Bits(n) == {b \in 0..30 : (n \div Pow2(b)) % 2 = 1}

U32(v) == v \cap (0..31)
U64(v) == v \cap (0..63)
Shl32(v) == U64({b + 32 : b \in v})
Shr32(v) == {b - 32 : b \in (v \cap (32..63))}
Lo32Mask == 0..31
Hi32Mask == 32..63

(* ------------------------------------------------------------------ *)
(* Register map (tegra241-cmdqv.h)                                    *)
(* ------------------------------------------------------------------ *)
A_CONFIG == 0
V_CONFIG_RESET == 132099
A_PARAM == 4
V_PARAM_RESET == 16401
A_STATUS == 8
R_STATUS_CMDQV_ENABLED_MASK == {0}
A_VI_ERR_MAP == 20
A_VI_ERR_MAP_1 == 24
A_VI_INT_MASK == 28
A_VI_INT_MASK_1 == 32
A_CMDQ_ERR_MAP == 36
A_CMDQ_ERR_MAP_3 == 48
A_CMDQ_ALLOC_MAP_0 == 512
A_CMDQ_ALLOC_MAP_127 == 1020
A_VINTF0_CONFIG == 4096
R_VINTF0_CONFIG_ENABLE_MASK == {0}
R_VINTF0_CONFIG_HYP_OWN_MASK == {17}
A_VINTF0_STATUS == 4100
R_VINTF0_STATUS_ENABLE_OK_MASK == {0}
A_VINTF0_CMDQ_ERR_MAP_0 == 4288
A_VINTF0_CMDQ_ERR_MAP_3 == 4300
VCMDQ_REG_PAGE_SIZE == 65536

A_VCMDQ0_CONS_INDX == 65536
A_VCMDQ0_PROD_INDX == 65540
A_VCMDQ0_CONFIG == 65544
A_VCMDQ0_STATUS == 65548
A_VCMDQ0_GERROR == 65552
A_VCMDQ0_GERRORN == 65556
A_VCMDQ127_GERRORN == 81812
A_VCMDQ0_BASE_L == 131072
R_VCMDQ0_BASE_L_LOG2SIZE_MASK == 0..4
R_VCMDQ0_BASE_L_ADDR_MASK == 5..31
A_VCMDQ0_BASE_H == 131076
R_VCMDQ0_BASE_H_ADDR_MASK == 0..15
A_VCMDQ0_CONS_INDX_BASE_DRAM_L == 131080
A_VCMDQ0_CONS_INDX_BASE_DRAM_H == 131084
A_VCMDQ127_CONS_INDX_BASE_DRAM_H == 147340

A_VI_VCMDQ0_CONS_INDX == 196608
A_VI_VCMDQ127_GERRORN == 212884
A_VI_VCMDQ0_BASE_L == 262144
A_VI_VCMDQ127_CONS_INDX_BASE_DRAM_H == 278412

\* the literals of tegra241_cmdqv_read / tegra241_cmdqv_write
MMIO_LIMIT == 327680
VCMDQ_STRIDE == 128
VCMDQ_PAGE_BASE == 65536
VCMDQ_BASE_BASE == 131072
VI_ALIAS_OFFSET == 131072
NUM_VCMDQ == 128

(* ------------------------------------------------------------------ *)
(* struct Tegra241CMDQV and the objects it points to                  *)
(* ------------------------------------------------------------------ *)
NULL == 0
Queues == 0..(NUM_VCMDQ - 1)

\* array[i], and array with array[i] = v, for an array whose entries are d
\* wherever it is not defined
Load(array, i, d) == IF i \in DOMAIN array THEN array[i] ELSE d
Store(array, i, v, d) ==
    IF v = d THEN [j \in DOMAIN array \ {i} |-> array[j]]
    ELSE [j \in DOMAIN array \cup {i} |-> IF j = i THEN v ELSE array[j]]
Zeroed == [j \in {} |-> {}]

\* IOMMUFDVqueue *: the null pointer, a live object, or a pointer whose
\* object has been g_free()d (vqueue_id is what the object last held)
NoVqueue == [state |-> "null", vqueue_id |-> 0]
LiveVqueue(id) == [state |-> "live", vqueue_id |-> id]
FreedVqueue(id) == [state |-> "freed", vqueue_id |-> id]

\* the words of the live page the handlers address: 0x80 * index + field
PageFields == {0, 4, 8, 12, 16, 20}
PageWords == {VCMDQ_STRIDE * i + f : i \in Queues, f \in PageFields}

Word(array, i) == Load(array, i, {})
Vqueue(st, i) == Load(st.vqueue, i, NoVqueue)

cmdqv_init_regs(st) ==
    [st EXCEPT !.config = Bits(V_CONFIG_RESET),
               !.param = Bits(V_PARAM_RESET),
               !.status = R_STATUS_CMDQV_ENABLED_MASK,
               !.vi_err_map = [i \in 0..1 |-> {}],
               !.vi_int_mask = [i \in 0..1 |-> {}],
               !.cmdq_err_map = [i \in 0..1 |-> {}],
               !.vintf_config = {},
               !.vintf_status = {},
               !.vintf_cmdq_err_map = [i \in 0..3 |-> {}],
               !.cmdq_alloc_map = Zeroed,
               !.vcmdq_cons_indx = Zeroed,
               !.vcmdq_prod_indx = Zeroed,
               !.vcmdq_config = Zeroed,
               !.vcmdq_status = Zeroed,
               !.vcmdq_gerror = Zeroed,
               !.vcmdq_gerrorn = Zeroed,
               !.vcmdq_base = Zeroed,
               !.vcmdq_cons_indx_base = Zeroed]

\* the zero-filled instance the object system hands to cmdqv_realize
Tegra241CMDQV ==
    [viommu |-> NULL,
     vqueue |-> Zeroed,
     vcmdq_page0 |-> NULL,
     config |-> {}, param |-> {}, status |-> {},
     vi_err_map |-> [i \in 0..1 |-> {}],
     vi_int_mask |-> [i \in 0..1 |-> {}],
     cmdq_err_map |-> [i \in 0..1 |-> {}],
     cmdq_alloc_map |-> Zeroed,
     vintf_config |-> {}, vintf_status |-> {},
     vintf_cmdq_err_map |-> [i \in 0..3 |-> {}],
     vcmdq_cons_indx |-> Zeroed,
     vcmdq_prod_indx |-> Zeroed,
     vcmdq_config |-> Zeroed,
     vcmdq_status |-> Zeroed,
     vcmdq_gerror |-> Zeroed,
     vcmdq_gerrorn |-> Zeroed,
     vcmdq_base |-> Zeroed,
     vcmdq_cons_indx_base |-> Zeroed]

(* ------------------------------------------------------------------ *)
(* The machine a handler runs on: the device, the live page the SMMU   *)
(* shares, the SMMU's vIOMMU association, the kernel's queue objects,  *)
(* and what the call in progress has done so far.                      *)
(* ------------------------------------------------------------------ *)
Machine(st, pg, ko, bsv, ab) ==
    [s |-> st, page |-> pg, kobjs |-> ko, bs_viommu |-> bsv, aborted |-> ab,
     reqs |-> <<>>, setups |-> <<>>, maps |-> 0, oob |-> FALSE,
     vq_ret |-> NoVqueue, ret |-> {}]

\* one ioctl: the request, and in .ok / .id what the kernel answered
DestroyReq(via, id, ok) ==
    [req |-> "IOMMU_DESTROY", viommu |-> via, id |-> id, ok |-> ok,
     vcmdq_id |-> 0, vcmdq_log2size |-> {}, vcmdq_base |-> {}]
AllocReq(via, data, id) ==
    [req |-> "IOMMU_VQUEUE_ALLOC", viommu |-> via, id |-> id, ok |-> id # 0,
     vcmdq_id |-> data.vcmdq_id, vcmdq_log2size |-> data.vcmdq_log2size,
     vcmdq_base |-> data.vcmdq_base]

\* ioctl(IOMMU_DESTROY): the kernel drops the object unless it has none of
\* that id or refuses (ch.busy); the failure is only reported
DestroyOk(m, id, ch) == id \in DOMAIN m.kobjs /\ id \notin ch.busy
iommufd_backend_free_id(m, via, id, ch) ==
    [m EXCEPT !.reqs = Append(@, DestroyReq(via, id, DestroyOk(m, id, ch))),
              !.kobjs = IF DestroyOk(m, id, ch)
                        THEN [j \in DOMAIN @ \ {id} |-> @[j]] ELSE @]

\* ioctl(IOMMU_VQUEUE_ALLOC): the kernel creates the queue under an id it
\* has not in use (ch.newId) or rejects the request; .vq_ret is the
\* IOMMUFDVqueue * returned
AllocOk(m, ch) == ch.allocOk /\ ch.newId \notin DOMAIN m.kobjs
iommufd_viommu_alloc_queue(m, via, data, ch) ==
    IF AllocOk(m, ch)
    THEN [m EXCEPT !.reqs = Append(@, AllocReq(via, data, ch.newId)),
                   !.kobjs = Store(@, ch.newId, data.vcmdq_id, -1),
                   !.vq_ret = LiveVqueue(ch.newId)]
    ELSE [m EXCEPT !.reqs = Append(@, AllocReq(via, data, 0)),
                   !.vq_ret = NoVqueue]

\* cpu_physical_memory_is_ram: guest RAM is [0x40000000, 0x80000000)
cpu_physical_memory_is_ram(addr) == addr \cap (30..63) = {30}

\* vqueue->vqueue_id: a freed object yields what it last held or garbage
ReadVqueueId(vq, ch) ==
    IF vq.state = "freed" /\ ~ch.uafStale THEN 0 ELSE vq.vqueue_id

\* free_id + g_free of the object slot index points to: a second g_free of
\* the same object either is caught by the allocator (abort) or goes
\* unnoticed; the slot keeps pointing to the freed object
ReleaseVqueue(m, via, index, ch) ==
    LET vq == Vqueue(m.s, index)
        m1 == iommufd_backend_free_id(m, via, ReadVqueueId(vq, ch), ch)
    IN IF vq.state = "freed" /\ ch.uafAbort
       THEN [m1 EXCEPT !.aborted = TRUE]
       ELSE [m1 EXCEPT !.s.vqueue =
                          Store(@, index, FreedVqueue(vq.vqueue_id), NoVqueue)]

\* variant: the address keeps bits 63..48 of the shadow base
Mut_SetupData_KeepsHighBits(st, index) ==
    [vcmdq_id |-> index,
     vcmdq_log2size |-> Word(st.vcmdq_base, index) \cap
                        R_VCMDQ0_BASE_L_LOG2SIZE_MASK,
     vcmdq_base |-> Word(st.vcmdq_base, index) \ R_VCMDQ0_BASE_L_LOG2SIZE_MASK]

SetupData(st, index) ==
    [vcmdq_id |-> index,
     vcmdq_log2size |-> Word(st.vcmdq_base, index) \cap
                        R_VCMDQ0_BASE_L_LOG2SIZE_MASK,
     vcmdq_base |-> Word(st.vcmdq_base, index) \cap
                    (R_VCMDQ0_BASE_L_ADDR_MASK \cup Shl32(R_VCMDQ0_BASE_H_ADDR_MASK))]

\* the three early returns
Mut_SetupCheck_NoRamCheck(m, data) ==
    IF m.bs_viommu = NULL THEN "ENODEV"
    ELSE IF data.vcmdq_log2size = {} THEN "EINVAL"
    ELSE "OK"

SetupCheck(m, data) ==
    IF m.bs_viommu = NULL THEN "ENODEV"
    ELSE IF data.vcmdq_log2size = {} THEN "EINVAL"
    ELSE IF ~cpu_physical_memory_is_ram(data.vcmdq_base) THEN "EINVAL"
    ELSE "OK"

\* if (vqueue) { free_id; g_free }
Mut_SetupRelease_AfterAlloc(m, index, ch) == m

SetupRelease(m, index, ch) ==
    IF Vqueue(m.s, index) # NoVqueue
    THEN ReleaseVqueue(m, m.bs_viommu, index, ch) ELSE m

\* variant: the queue is allocated without caching the vIOMMU
Mut_SetupAlloc_NoCache(m, index, data, ch) ==
    LET m2 == iommufd_viommu_alloc_queue(m, m.bs_viommu, data, ch)
    IN IF m2.vq_ret = NoVqueue
       THEN [m2 EXCEPT !.ret = "ENODEV"]
       ELSE [m2 EXCEPT !.s.vqueue = Store(@, index, m2.vq_ret, NoVqueue),
                       !.ret = "OK"]

\* cache the vIOMMU, allocate, record the queue on success
SetupAlloc(m, index, data, ch) ==
    LET m1 == IF m.s.viommu = NULL
              THEN [m EXCEPT !.s.viommu = m.bs_viommu] ELSE m
        m2 == iommufd_viommu_alloc_queue(m1, m1.bs_viommu, data, ch)
    IN IF m2.vq_ret = NoVqueue
       THEN [m2 EXCEPT !.ret = "ENODEV"]
       ELSE [m2 EXCEPT !.s.vqueue = Store(@, index, m2.vq_ret, NoVqueue),
                       !.ret = "OK"]

\* what one call of tegra241_cmdqv_setup_vcmdq saw and returned
SetupDone(m, index, data, old, ret) ==
    [m EXCEPT !.ret = {},
              !.setups = Append(@, [index |-> index, data |-> data,
                                    old |-> old, ret |-> ret])]

tegra241_cmdqv_setup_vcmdq(m, index, ch) ==
    LET data == SetupData(m.s, index)
        vqueue == Vqueue(m.s, index)
        check == SetupCheck(m, data)
    IN IF check # "OK" THEN SetupDone(m, index, data, vqueue, check)
       ELSE LET m1 == SetupRelease(m, index, ch)
            IN IF m1.aborted THEN SetupDone(m1, index, data, vqueue, "ABORT")
               ELSE LET m2 == SetupAlloc(m1, index, data, ch)
                    IN SetupDone(m2, index, data, vqueue, m2.ret)

(* ------------------------------------------------------------------ *)
(* Register cache indexing.  vi_err_map[2], vi_int_mask[2],            *)
(* cmdq_err_map[2] and cmdq_alloc_map[128] are consecutive uint32_t    *)
(* members, so an index past the end of one array addresses the word   *)
(* of the member that follows it.                                      *)
(* ------------------------------------------------------------------ *)
VI_ERR_MAP_WORD == 0
VI_INT_MASK_WORD == 2
CMDQ_ERR_MAP_WORD == 4
CMDQ_ALLOC_MAP_WORD == 6

CacheLen(word) ==
    IF word = CMDQ_ALLOC_MAP_WORD THEN NUM_VCMDQ ELSE 2

CacheRead(st, word, idx) ==
    LET p == word + idx
    IN IF p < VI_INT_MASK_WORD THEN st.vi_err_map[p - VI_ERR_MAP_WORD]
       ELSE IF p < CMDQ_ERR_MAP_WORD THEN st.vi_int_mask[p - VI_INT_MASK_WORD]
       ELSE IF p < CMDQ_ALLOC_MAP_WORD THEN st.cmdq_err_map[p - CMDQ_ERR_MAP_WORD]
       ELSE Word(st.cmdq_alloc_map, p - CMDQ_ALLOC_MAP_WORD)

CacheWrite(st, word, idx, v) ==
    LET p == word + idx
    IN IF p < VI_INT_MASK_WORD
       THEN [st EXCEPT !.vi_err_map[p - VI_ERR_MAP_WORD] = v]
       ELSE IF p < CMDQ_ERR_MAP_WORD
       THEN [st EXCEPT !.vi_int_mask[p - VI_INT_MASK_WORD] = v]
       ELSE IF p < CMDQ_ALLOC_MAP_WORD
       THEN [st EXCEPT !.cmdq_err_map[p - CMDQ_ERR_MAP_WORD] = v]
       ELSE [st EXCEPT !.cmdq_alloc_map =
                       Store(@, p - CMDQ_ALLOC_MAP_WORD, v, {})]

(* ------------------------------------------------------------------ *)
(* The live page                                                      *)
(* ------------------------------------------------------------------ *)
MAPPED == 1

\* smmu_iommu_get_shared_page returns the page or NULL (ch.mapOk)
tegra241_cmdqv_init_vcmdq_page0(m, ch) ==
    [m EXCEPT !.maps = @ + 1,
              !.s.vcmdq_page0 = IF ch.mapOk THEN MAPPED ELSE NULL]

\* (uint32_t *)(s->vcmdq_page0 + 0x80 * index + offset - 0x10000)
PagePtr(index, offset) == VCMDQ_STRIDE * index + offset - VCMDQ_PAGE_BASE

\* *ptr: with vcmdq_page0 NULL the access faults
PageLoad(m, index, offset) == Word(m.page, PagePtr(index, offset))

(* ------------------------------------------------------------------ *)
(* Read handlers; the value returned is .ret                          *)
(* ------------------------------------------------------------------ *)
Return(m, v) == [m EXCEPT !.ret = v]
Fault(m) == [m EXCEPT !.aborted = TRUE]

tegra241_cmdqv_read_vintf(m, offset) ==
    IF offset = A_VINTF0_CONFIG THEN Return(m, m.s.vintf_config)
    ELSE IF offset = A_VINTF0_STATUS THEN Return(m, m.s.vintf_status)
    ELSE IF offset >= A_VINTF0_CMDQ_ERR_MAP_0 /\ offset <= A_VINTF0_CMDQ_ERR_MAP_3
    THEN Return(m, m.s.vintf_cmdq_err_map[(offset - A_VINTF0_CMDQ_ERR_MAP_0) \div 4])
    ELSE Return(m, {})

\* variant: the shadow value is returned without a refresh from the page
Mut_ReadLive_Cached(m, field, index, offset) ==
    IF m.s.vcmdq_page0 = NULL THEN Fault(m)
    ELSE Return(m, Word(m.s[field], index))

\* s->field[index] = *ptr; return s->field[index];
ReadLive(m, field, index, offset) ==
    IF m.s.vcmdq_page0 = NULL THEN Fault(m)
    ELSE Return([m EXCEPT !.s[field] =
                         Store(@, index, PageLoad(m, index, offset), {})],
                PageLoad(m, index, offset))

tegra241_cmdqv_read_vcmdq(m, offset, index) ==
    IF offset = A_VCMDQ0_CONS_INDX THEN ReadLive(m, "vcmdq_cons_indx", index, offset)
    ELSE IF offset = A_VCMDQ0_PROD_INDX THEN ReadLive(m, "vcmdq_prod_indx", index, offset)
    ELSE IF offset = A_VCMDQ0_CONFIG THEN ReadLive(m, "vcmdq_config", index, offset)
    ELSE IF offset = A_VCMDQ0_STATUS THEN ReadLive(m, "vcmdq_status", index, offset)
    ELSE IF offset = A_VCMDQ0_GERROR THEN ReadLive(m, "vcmdq_gerror", index, offset)
    ELSE IF offset = A_VCMDQ0_GERRORN THEN ReadLive(m, "vcmdq_gerrorn", index, offset)
    ELSE IF offset = A_VCMDQ0_BASE_L THEN Return(m, Word(m.s.vcmdq_base, index))
    ELSE IF offset = A_VCMDQ0_BASE_H THEN Return(m, Shr32(Word(m.s.vcmdq_base, index)))
    ELSE IF offset = A_VCMDQ0_CONS_INDX_BASE_DRAM_L
    THEN Return(m, Word(m.s.vcmdq_cons_indx_base, index))
    ELSE IF offset = A_VCMDQ0_CONS_INDX_BASE_DRAM_H
    THEN Return(m, Shr32(Word(m.s.vcmdq_cons_indx_base, index)))
    ELSE Return(m, {})

\* return s->array[idx], idx possibly past the array's end
ReadCache(m, word, idx) ==
    Return([m EXCEPT !.oob = @ \/ idx >= CacheLen(word)], CacheRead(m.s, word, idx))

ReadDecode(m, offset) ==
    IF offset > MMIO_LIMIT THEN Return(m, {})
    ELSE IF offset = A_CONFIG THEN Return(m, m.s.config)
    ELSE IF offset = A_PARAM THEN Return(m, m.s.param)
    ELSE IF offset = A_STATUS THEN Return(m, m.s.status)
    ELSE IF offset >= A_VI_ERR_MAP /\ offset <= A_VI_ERR_MAP_1
    THEN ReadCache(m, VI_ERR_MAP_WORD, (offset - A_VI_ERR_MAP) \div 2)
    ELSE IF offset >= A_VI_INT_MASK /\ offset <= A_VI_INT_MASK_1
    THEN ReadCache(m, VI_INT_MASK_WORD, (offset - A_VI_INT_MASK) \div 2)
    ELSE IF offset >= A_CMDQ_ERR_MAP /\ offset <= A_CMDQ_ERR_MAP_3
    THEN ReadCache(m, CMDQ_ERR_MAP_WORD, (offset - A_CMDQ_ERR_MAP) \div 4)
    ELSE IF offset >= A_CMDQ_ALLOC_MAP_0 /\ offset <= A_CMDQ_ALLOC_MAP_127
    THEN ReadCache(m, CMDQ_ALLOC_MAP_WORD, (offset - A_CMDQ_ALLOC_MAP_0) \div 128)
    ELSE IF offset >= A_VINTF0_CONFIG /\ offset <= A_VINTF0_CMDQ_ERR_MAP_3
    THEN tegra241_cmdqv_read_vintf(m, offset)
    ELSE IF offset >= A_VCMDQ0_CONS_INDX /\ offset <= A_VCMDQ127_GERRORN
    THEN LET index == (offset - VCMDQ_PAGE_BASE) \div VCMDQ_STRIDE
         IN tegra241_cmdqv_read_vcmdq(m, offset - VCMDQ_STRIDE * index, index)
    ELSE IF offset >= A_VCMDQ0_BASE_L /\ offset <= A_VCMDQ127_CONS_INDX_BASE_DRAM_H
    THEN LET index == (offset - VCMDQ_BASE_BASE) \div VCMDQ_STRIDE
         IN tegra241_cmdqv_read_vcmdq(m, offset - VCMDQ_STRIDE * index, index)
    ELSE Return(m, {})

tegra241_cmdqv_read(m, offset, size, ch) ==
    ReadDecode(IF m.s.vcmdq_page0 = NULL
               THEN tegra241_cmdqv_init_vcmdq_page0(m, ch) ELSE m, offset)

(* ------------------------------------------------------------------ *)
(* Write handlers                                                     *)
(* ------------------------------------------------------------------ *)
\* variant: the HYP_OWN bit of the written value is stored as given
Mut_write_vintf_KeepsHypOwn(m, offset, value, size) ==
    IF offset = A_VINTF0_CONFIG
    THEN [m EXCEPT !.s.vintf_config = U32(value),
                   !.s.vintf_status =
                       IF value \cap R_VINTF0_CONFIG_ENABLE_MASK # {}
                       THEN R_VINTF0_STATUS_ENABLE_OK_MASK
                       ELSE @ \ R_VINTF0_STATUS_ENABLE_OK_MASK]
    ELSE m

\* variant: the status register does not follow the ENABLE bit
Mut_write_vintf_NoStatus(m, offset, value, size) ==
    IF offset = A_VINTF0_CONFIG
    THEN [m EXCEPT !.s.vintf_config =
                       U32(value \ R_VINTF0_CONFIG_HYP_OWN_MASK)]
    ELSE m

tegra241_cmdqv_write_vintf(m, offset, value, size) ==
    IF offset = A_VINTF0_CONFIG
    THEN LET v == value \ R_VINTF0_CONFIG_HYP_OWN_MASK
         IN [m EXCEPT !.s.vintf_config = U32(v),
                      !.s.vintf_status =
                          IF v \cap R_VINTF0_CONFIG_ENABLE_MASK # {}
                          THEN R_VINTF0_STATUS_ENABLE_OK_MASK
                          ELSE @ \ R_VINTF0_STATUS_ENABLE_OK_MASK]
    ELSE m

\* *ptr = s->field[index] = value;
WriteLive(m, field, index, offset, value) ==
    IF m.s.vcmdq_page0 = NULL THEN Fault(m)
    ELSE [m EXCEPT !.s[field] = Store(@, index, U32(value), {}),
                   !.page = Store(@, PagePtr(index, offset), U32(value), {})]

\* variant: a 32-bit write replaces the whole register
Mut_WriteBaseL_ClearsHigh(base, value, size) ==
    IF size = 8 \/ size = 4 THEN U32(value) ELSE base

WriteBaseL(base, value, size) ==
    IF size = 8 THEN U64(value)
    ELSE IF size = 4 THEN (base \cap Hi32Mask) \cup (value \cap Lo32Mask)
    ELSE base

WriteBaseH(base, value) == (base \cap Lo32Mask) \cup Shl32(value)

WriteConsIndxBaseL(base, value, size) ==
    IF size = 8 THEN U64(value)
    ELSE IF size = 4 THEN (base \cap Lo32Mask) \cup (value \cap Lo32Mask)
    ELSE base

WriteConsIndxBaseH(base, value) == (base \cap Hi32Mask) \cup Shl32(value)

\* variant: only the low half of the base reconfigures the queue
Mut_write_vcmdq_HighHalfIsQuiet(m, offset, index, value, size, ch) ==
    IF offset = A_VCMDQ0_CONS_INDX
    THEN WriteLive(m, "vcmdq_cons_indx", index, offset, value)
    ELSE IF offset = A_VCMDQ0_PROD_INDX
    THEN WriteLive(m, "vcmdq_prod_indx", index, offset, value)
    ELSE IF offset = A_VCMDQ0_CONFIG
    THEN WriteLive(m, "vcmdq_config", index, offset, value)
    ELSE IF offset = A_VCMDQ0_GERRORN
    THEN WriteLive(m, "vcmdq_gerrorn", index, offset, value)
    ELSE IF offset = A_VCMDQ0_BASE_L
    THEN tegra241_cmdqv_setup_vcmdq(
             [m EXCEPT !.s.vcmdq_base =
                  Store(@, index, WriteBaseL(Word(@, index), value, size), {})],
             index, ch)
    ELSE IF offset = A_VCMDQ0_BASE_H
    THEN [m EXCEPT !.s.vcmdq_base =
              Store(@, index, WriteBaseH(Word(@, index), value), {})]
    ELSE IF offset = A_VCMDQ0_CONS_INDX_BASE_DRAM_L
    THEN [m EXCEPT !.s.vcmdq_cons_indx_base =
              Store(@, index, WriteConsIndxBaseL(Word(@, index), value, size), {})]
    ELSE IF offset = A_VCMDQ0_CONS_INDX_BASE_DRAM_H
    THEN [m EXCEPT !.s.vcmdq_cons_indx_base =
              Store(@, index, WriteConsIndxBaseH(Word(@, index), value), {})]
    ELSE m

tegra241_cmdqv_write_vcmdq(m, offset, index, value, size, ch) ==
    IF offset = A_VCMDQ0_CONS_INDX
    THEN WriteLive(m, "vcmdq_cons_indx", index, offset, value)
    ELSE IF offset = A_VCMDQ0_PROD_INDX
    THEN WriteLive(m, "vcmdq_prod_indx", index, offset, value)
    ELSE IF offset = A_VCMDQ0_CONFIG
    THEN WriteLive(m, "vcmdq_config", index, offset, value)
    ELSE IF offset = A_VCMDQ0_GERRORN
    THEN WriteLive(m, "vcmdq_gerrorn", index, offset, value)
    ELSE IF offset = A_VCMDQ0_BASE_L
    THEN tegra241_cmdqv_setup_vcmdq(
             [m EXCEPT !.s.vcmdq_base =
                  Store(@, index, WriteBaseL(Word(@, index), value, size), {})],
             index, ch)
    ELSE IF offset = A_VCMDQ0_BASE_H
    THEN tegra241_cmdqv_setup_vcmdq(
             [m EXCEPT !.s.vcmdq_base =
                  Store(@, index, WriteBaseH(Word(@, index), value), {})],
             index, ch)
    ELSE IF offset = A_VCMDQ0_CONS_INDX_BASE_DRAM_L
    THEN [m EXCEPT !.s.vcmdq_cons_indx_base =
              Store(@, index, WriteConsIndxBaseL(Word(@, index), value, size), {})]
    ELSE IF offset = A_VCMDQ0_CONS_INDX_BASE_DRAM_H
    THEN [m EXCEPT !.s.vcmdq_cons_indx_base =
              Store(@, index, WriteConsIndxBaseH(Word(@, index), value), {})]
    ELSE m

\* s->array[idx] = value, idx possibly past the array's end
WriteCache(m, word, idx, value) ==
    [m EXCEPT !.oob = @ \/ idx >= CacheLen(word),
              !.s = CacheWrite(@, word, idx, U32(value))]

\* variant: only the VI_VCMDQ page window is folded onto the VCMDQ one
Mut_AliasOffset_PageOnly(offset) ==
    IF offset >= A_VI_VCMDQ0_CONS_INDX /\ offset <= A_VI_VCMDQ127_GERRORN
    THEN offset - VI_ALIAS_OFFSET
    ELSE offset

\* the VI_VCMDQ windows fall through to the VCMDQ ones after offset -= 0x20000
AliasOffset(offset) ==
    IF (offset >= A_VI_VCMDQ0_CONS_INDX /\ offset <= A_VI_VCMDQ127_GERRORN)
       \/ (offset >= A_VI_VCMDQ0_BASE_L /\
           offset <= A_VI_VCMDQ127_CONS_INDX_BASE_DRAM_H)
    THEN offset - VI_ALIAS_OFFSET
    ELSE offset

WriteDecode(m, offset, value, size, ch) ==
    IF offset > MMIO_LIMIT THEN m
    ELSE IF offset = A_CONFIG THEN [m EXCEPT !.s.config = U32(value)]
    ELSE IF offset >= A_VI_INT_MASK /\ offset <= A_VI_INT_MASK_1
    THEN WriteCache(m, VI_INT_MASK_WORD, (offset - A_VI_INT_MASK) \div 2, value)
    ELSE IF offset >= A_CMDQ_ALLOC_MAP_0 /\ offset <= A_CMDQ_ALLOC_MAP_127
    THEN WriteCache(m, CMDQ_ALLOC_MAP_WORD,
                    (offset - A_CMDQ_ALLOC_MAP_0) \div 128, value)
    ELSE IF offset >= A_VINTF0_CONFIG /\ offset <= A_VINTF0_CMDQ_ERR_MAP_3
    THEN tegra241_cmdqv_write_vintf(m, offset, value, size)
    ELSE LET o == AliasOffset(offset)
         IN IF o >= A_VCMDQ0_CONS_INDX /\ o <= A_VCMDQ127_GERRORN
            THEN LET index == (o - VCMDQ_PAGE_BASE) \div VCMDQ_STRIDE
                 IN tegra241_cmdqv_write_vcmdq(m, o - VCMDQ_STRIDE * index,
                                               index, value, size, ch)
            ELSE IF o >= A_VCMDQ0_BASE_L /\ o <= A_VCMDQ127_CONS_INDX_BASE_DRAM_H
            THEN LET index == (o - VCMDQ_BASE_BASE) \div VCMDQ_STRIDE
                 IN tegra241_cmdqv_write_vcmdq(m, o - VCMDQ_STRIDE * index,
                                               index, value, size, ch)
            ELSE m

tegra241_cmdqv_write(m, offset, value, size, ch) ==
    WriteDecode(IF m.s.vcmdq_page0 = NULL
                THEN tegra241_cmdqv_init_vcmdq_page0(m, ch) ELSE m,
                offset, value, size, ch)

(* ------------------------------------------------------------------ *)
(* Reset                                                              *)
(* ------------------------------------------------------------------ *)
\* variant: the slot is emptied without a destroy request
Mut_ResetSlot_NoDestroy(m, i, ch) ==
    IF Vqueue(m.s, i) = NoVqueue THEN m
    ELSE IF m.s.viommu = NULL THEN Fault(m)
    ELSE [m EXCEPT !.s.vqueue = Store(@, i, NoVqueue, NoVqueue)]

\* one pass of the loop body of cmdqv_reset for slot i
ResetSlot(m, i, ch) ==
    IF Vqueue(m.s, i) = NoVqueue THEN m
    ELSE IF m.s.viommu = NULL THEN Fault(m)
    ELSE LET m1 == ReleaseVqueue(m, m.s.viommu, i, ch)
         IN IF m1.aborted THEN m1
            ELSE [m1 EXCEPT !.s.vqueue = Store(@, i, NoVqueue, NoVqueue)]

\* for (i = 0; i < 128; i++): the body does nothing for a NULL slot, so the
\* loop steps from one recorded slot to the next in ascending order
RECURSIVE ResetLoop(_, _, _)
ResetLoop(m, i, ch) ==
    LET rest == {j \in DOMAIN m.s.vqueue : j >= i /\ j < NUM_VCMDQ}
    IN IF rest = {} \/ m.aborted THEN m
       ELSE LET j == CHOOSE j \in rest : \A k \in rest : j <= k
            IN ResetLoop(ResetSlot(m, j, ch), j + 1, ch)

\* variant: the reset also drops the cached vIOMMU reference
Mut_cmdqv_reset_ClearsViommu(m, ch) ==
    LET m1 == ResetLoop(m, 0, ch)
    IN IF m1.aborted THEN m1
       ELSE [m1 EXCEPT !.s = [cmdqv_init_regs(@) EXCEPT !.viommu = NULL]]

cmdqv_reset(m, ch) ==
    LET m1 == ResetLoop(m, 0, ch)
    IN IF m1.aborted THEN m1
       ELSE [m1 EXCEPT !.s = cmdqv_init_regs(@)]

(* ------------------------------------------------------------------ *)
(* The iommufd backend handle (backends/iommufd.c)                    *)
(* ------------------------------------------------------------------ *)
\* errno values; a failed system call returns -1 and sets errno
ENOENT == 2
EBADF == 9
EFAULT == 14
EINVAL == 22
Errnos == {ENOENT, EBADF, EINVAL}

\* IOMMUFDBackend after iommufd_backend_init
IOMMUFDBackend == [fd |-> -1, users |-> 0, owned |-> TRUE]

\* the handle be, the descriptors open in the process, the iovas mapped
\* through the handle's descriptor, and what one call did: the value it
\* returned, the opens it attempted, the descriptors it closed, the
\* kernel's answer to its ioctl and the entry count it left to the caller
Backend(be, open, mapped, ab) ==
    [be |-> be, open |-> open, mapped |-> mapped, aborted |-> ab,
     ret |-> 0, opens |-> 0, closes |-> <<>>, flags |-> {},
     kernel |-> [ret |-> 0, errno |-> 0, entry_num |-> 0], entry_num |-> 0]

\* close(fd); the kernel context behind the handle's descriptor goes with it
Close(b, fd) ==
    [b EXCEPT !.closes = Append(@, fd),
              !.open = @ \ {fd},
              !.mapped = IF fd \in b.open THEN {} ELSE @]

iommufd_backend_init(b) == [b EXCEPT !.be = IOMMUFDBackend]

iommufd_backend_finalize(b) ==
    IF b.be.owned
    THEN [Close(b, b.be.fd) EXCEPT !.be.fd = -1]
    ELSE b

\* variant: the handle still counts as the owner of the descriptor
Mut_set_fd_KeepsOwned(b, fd) ==
    IF fd = -1 THEN [b EXCEPT !.ret = -1]
    ELSE [b EXCEPT !.be.fd = fd, !.open = @ \cup {fd}]

\* fd is what monitor_fd_param returned
iommufd_backend_set_fd(b, fd) ==
    IF fd = -1 THEN [b EXCEPT !.ret = -1]
    ELSE [b EXCEPT !.be.fd = fd, !.be.owned = FALSE, !.open = @ \cup {fd}]

\* variant: the count is incremented although the open failed
Mut_connect_CountsFailedOpen(b, fd) ==
    IF b.be.owned /\ b.be.users = 0
    THEN IF fd < 0
         THEN [b EXCEPT !.opens = @ + 1, !.ret = fd, !.be.users = @ + 1]
         ELSE [b EXCEPT !.opens = @ + 1, !.open = @ \cup {fd},
                        !.be.fd = fd, !.be.users = @ + 1]
    ELSE [b EXCEPT !.be.users = @ + 1]

\* fd is what qemu_open_old returns if it is called
iommufd_backend_connect(b, fd) ==
    IF b.be.owned /\ b.be.users = 0
    THEN IF fd < 0
         THEN [b EXCEPT !.opens = @ + 1, !.ret = fd]
         ELSE [b EXCEPT !.opens = @ + 1, !.open = @ \cup {fd},
                        !.be.fd = fd, !.be.users = @ + 1]
    ELSE [b EXCEPT !.be.users = @ + 1]

\* variant: the descriptor is closed whoever owns it
Mut_disconnect_ClosesAlways(b) ==
    IF b.be.users = 0 THEN b
    ELSE LET b1 == [b EXCEPT !.be.users = @ - 1]
         IN IF b1.be.users = 0
            THEN [Close(b1, b1.be.fd) EXCEPT !.be.fd = -1]
            ELSE b1

\* variant: no test for a count of 0
Mut_disconnect_NoZeroTest(b) ==
    LET b1 == [b EXCEPT !.be.users = IF @ = 0 THEN 0 ELSE @ - 1]
    IN IF b1.be.users = 0 /\ b1.be.owned
       THEN [Close(b1, b1.be.fd) EXCEPT !.be.fd = -1]
       ELSE b1

iommufd_backend_disconnect(b) ==
    IF b.be.users = 0 THEN b
    ELSE LET b1 == [b EXCEPT !.be.users = @ - 1]
         IN IF b1.be.users = 0 /\ b1.be.owned
            THEN [Close(b1, b1.be.fd) EXCEPT !.be.fd = -1]
            ELSE b1

\* ioctl(fd, ...): on a descriptor that is not open the kernel is not
\* reached; otherwise k is its answer
Ioctl(b, k) ==
    IF b.be.fd \in b.open THEN k
    ELSE [k EXCEPT !.ret = -1, !.errno = EBADF]

\* map.flags of the request
MapFlags(readonly) ==
    {"IOMMU_IOAS_MAP_READABLE", "IOMMU_IOAS_MAP_FIXED_IOVA"}
        \cup (IF ~readonly THEN {"IOMMU_IOAS_MAP_WRITEABLE"} ELSE {})

\* variant: the request is writable whatever readonly says
Mut_map_dma_AlwaysWritable(b, iova, readonly, k) ==
    LET r == Ioctl(b, k)
        b1 == [b EXCEPT !.flags = MapFlags(FALSE), !.kernel = r]
    IN IF r.ret # 0
       THEN [b1 EXCEPT !.ret = -r.errno]
       ELSE [b1 EXCEPT !.ret = 0, !.mapped = @ \cup {iova}]

\* EFAULT and the other failures differ in the message only
iommufd_backend_map_dma(b, iova, readonly, k) ==
    LET r == Ioctl(b, k)
        b1 == [b EXCEPT !.flags = MapFlags(readonly), !.kernel = r]
    IN IF r.ret # 0
       THEN [b1 EXCEPT !.ret = -r.errno]
       ELSE [b1 EXCEPT !.ret = 0, !.mapped = @ \cup {iova}]

\* IOMMU_IOAS_UNMAP of a range with no mapping fails with ENOENT
UnmapIoctl(b, iova, k) ==
    LET r == Ioctl(b, k)
    IN IF b.be.fd \in b.open /\ iova \notin b.mapped
       THEN [r EXCEPT !.ret = -1, !.errno = ENOENT]
       ELSE r

\* variant: ENOENT is reported like any other failure
Mut_unmap_dma_ReportsENOENT(b, iova, k) ==
    LET r == UnmapIoctl(b, iova, k)
    IN IF r.ret # 0
       THEN [b EXCEPT !.kernel = r, !.ret = -r.errno]
       ELSE [b EXCEPT !.kernel = r, !.ret = 0, !.mapped = @ \ {iova}]

iommufd_backend_unmap_dma(b, iova, k) ==
    LET r == UnmapIoctl(b, iova, k)
        ret == IF r.ret # 0 /\ r.errno = ENOENT THEN 0 ELSE r.ret
    IN IF ret # 0
       THEN [b EXCEPT !.kernel = r, !.ret = -r.errno]
       ELSE [b EXCEPT !.kernel = r, !.ret = 0,
                      !.mapped = IF r.ret = 0 THEN @ \ {iova} ELSE @]

\* a call that does not reach the kernel leaves cache.entry_num as sent
InvalidateIoctl(b, entry_num, k) ==
    IF b.be.fd \in b.open THEN k
    ELSE [k EXCEPT !.ret = -1, !.errno = EBADF, !.entry_num = entry_num]

\* variant: a count that differs is passed over
Mut_invalidate_cache_NoAssert(b, entry_num, k) ==
    LET r == InvalidateIoctl(b, entry_num, k)
    IN IF r.ret # 0
       THEN [b EXCEPT !.kernel = r, !.entry_num = r.entry_num,
                      !.ret = -r.errno]
       ELSE [b EXCEPT !.kernel = r, !.entry_num = entry_num, !.ret = 0]

\* entry_num is *entry_num at the call; .entry_num is *entry_num after it
\* (error_report runs before ret = -errno; it leaves errno positive)
iommufd_backend_invalidate_cache(b, entry_num, k) ==
    LET r == InvalidateIoctl(b, entry_num, k)
    IN IF r.ret # 0
       THEN [b EXCEPT !.kernel = r, !.entry_num = r.entry_num,
                      !.ret = -r.errno]
       ELSE IF entry_num # r.entry_num
       THEN [b EXCEPT !.kernel = r, !.entry_num = entry_num,
                      !.aborted = TRUE]
       ELSE [b EXCEPT !.kernel = r, !.entry_num = entry_num, !.ret = 0]

iommufd_backend_invalidate_dev_cache(b, entry_num, k) ==
    LET r == InvalidateIoctl(b, entry_num, k)
    IN IF r.ret # 0
       THEN [b EXCEPT !.kernel = r, !.entry_num = r.entry_num,
                      !.ret = -r.errno]
       ELSE IF entry_num # r.entry_num
       THEN [b EXCEPT !.kernel = r, !.entry_num = entry_num,
                      !.aborted = TRUE]
       ELSE [b EXCEPT !.kernel = r, !.entry_num = entry_num, !.ret = 0]

(* ------------------------------------------------------------------ *)
(* State                                                              *)
(* ------------------------------------------------------------------ *)
VARIABLES
    s,          \* the Tegra241CMDQV instance
    page,       \* the words of the live page shared with the physical device
    kobjs,      \* the kernel's queue objects: id |-> the vcmdq_id it serves
    bs_viommu,  \* ARM_SMMU(s->smmu_dev)->viommu
    aborted,    \* the process has died (allocator abort or fault)
    last,       \* the last call: its inputs and what it did
    be,         \* an IOMMUFDBackend handle
    os,         \* the descriptors open in the process, the handle's mappings
    be_last     \* the last call on the handle

vars == <<s, page, kobjs, bs_viommu, aborted, last, be, os, be_last>>

MaxVqueueId == 2
VqueueIds == 1..MaxVqueueId
VIOMMU == 1

Cur == Machine(s, page, kobjs, bs_viommu, aborted)

NoCall == [op |-> "none", offset |-> 0, value |-> {}, size |-> 0, ret |-> {},
           reqs |-> <<>>, setups |-> <<>>, maps |-> 0, oob |-> FALSE]

Call(op, offset, value, size, m) ==
    [op |-> op, offset |-> offset, value |-> value, size |-> size,
     ret |-> m.ret, reqs |-> m.reqs, setups |-> m.setups, maps |-> m.maps,
     oob |-> m.oob]

Commit(op, offset, value, size, m) ==
    /\ s' = m.s
    /\ page' = m.page
    /\ kobjs' = m.kobjs
    /\ bs_viommu' = m.bs_viommu
    /\ aborted' = m.aborted
    /\ last' = Call(op, offset, value, size, m)
    /\ UNCHANGED <<be, os, be_last>>

\* no descriptor is open, nothing is mapped, the handle is in use
NoDescriptors ==
    [open |-> {}, mapped |-> {}, aborted |-> FALSE, finalized |-> FALSE]

NoBeCall ==
    [op |-> "none", arg |-> 0, ret |-> 0, opens |-> 0, closes |-> <<>>,
     flags |-> {}, readonly |-> FALSE,
     kernel |-> [ret |-> 0, errno |-> 0, entry_num |-> 0], entry_num |-> 0,
     users0 |-> 0, prev |-> [op |-> "none", arg |-> 0, ret |-> 0]]

\* cmdqv_realize on the zero-filled instance; iommufd_backend_init
Init ==
    /\ s = cmdqv_init_regs(Tegra241CMDQV)
    /\ page = Zeroed
    /\ kobjs = Zeroed
    /\ bs_viommu = NULL
    /\ aborted = FALSE
    /\ last = NoCall
    /\ be = IOMMUFDBackend
    /\ os = NoDescriptors
    /\ be_last = NoBeCall

(* ------------------------------------------------------------------ *)
(* What the environment decides during one call                       *)
(* ------------------------------------------------------------------ *)
NoKernel == [allocOk |-> FALSE, newId |-> 1, busy |-> {},
             uafStale |-> TRUE, uafAbort |-> FALSE]

MapChoices(st) == IF st.vcmdq_page0 = NULL THEN BOOLEAN ELSE {TRUE}

\* the kernel's answers that matter when the pointers vqs are released:
\* which of their objects it refuses to destroy, what a freed one reads as
\* and whether the allocator catches its second g_free
ReleaseChoices(vqs, ko) ==
    LET freed == \E vq \in vqs : vq.state = "freed"
    IN {[allocOk |-> FALSE, newId |-> 1, busy |-> b, uafStale |-> us,
         uafAbort |-> ua] :
            b \in SUBSET ({vq.vqueue_id : vq \in vqs} \cap DOMAIN ko),
            us \in (IF freed THEN BOOLEAN ELSE {TRUE}),
            ua \in (IF freed THEN BOOLEAN ELSE {FALSE})}

\* and whether it allocates, and under which id
AllocChoices(rel) ==
    rel \cup {[k EXCEPT !.allocOk = TRUE, !.newId = n] : k \in rel, n \in VqueueIds}

WithMap(k, ok) ==
    [mapOk |-> ok, allocOk |-> k.allocOk, newId |-> k.newId, busy |-> k.busy,
     uafStale |-> k.uafStale, uafAbort |-> k.uafAbort]

\* a write reaches the kernel only through a base register
IsBaseOffset(offset) ==
    LET o == AliasOffset(offset)
    IN /\ o >= A_VCMDQ0_BASE_L /\ o <= A_VCMDQ127_CONS_INDX_BASE_DRAM_H
       /\ (o - VCMDQ_BASE_BASE) % VCMDQ_STRIDE \in {0, 4}

BaseIndex(offset) == (AliasOffset(offset) - VCMDQ_BASE_BASE) \div VCMDQ_STRIDE

\* the kernel's answers matter only to a call that issues a request
WriteChoices(m, offset, value, size) ==
    LET probe == tegra241_cmdqv_write(m, offset, value, size,
                                      WithMap(NoKernel, TRUE))
    IN {WithMap(k, ok) :
           k \in (IF probe.reqs # <<>>
                  THEN AllocChoices(ReleaseChoices(
                           {Vqueue(m.s, BaseIndex(offset))} \ {NoVqueue},
                           m.kobjs))
                  ELSE {NoKernel}),
           ok \in MapChoices(m.s)}

ReadChoices(st) == {WithMap(NoKernel, ok) : ok \in MapChoices(st)}

ResetChoices(st, ko) ==
    {WithMap(k, TRUE) :
        k \in ReleaseChoices({st.vqueue[i] : i \in DOMAIN st.vqueue}, ko)}

(* ------------------------------------------------------------------ *)
(* Actions                                                            *)
(* ------------------------------------------------------------------ *)
\* an access is <<offset, size>>; the memory core hands the handler a value
\* of the access's width
GuestWrite(accesses, values) ==
    \E a \in accesses, v \in values :
        LET value == v \cap (0 .. 8 * a[2] - 1)
        IN \E ch \in WriteChoices(Cur, a[1], value, a[2]) :
              /\ ~aborted
              /\ Commit("write", a[1], value, a[2],
                        tegra241_cmdqv_write(Cur, a[1], value, a[2], ch))

GuestRead(accesses) ==
    \E a \in accesses :
        \E ch \in ReadChoices(s) :
            /\ ~aborted
            /\ Commit("read", a[1], {}, a[2],
                      tegra241_cmdqv_read(Cur, a[1], a[2], ch))

DeviceReset ==
    \E ch \in ResetChoices(s, kobjs) :
        /\ ~aborted
        /\ Commit("reset", 0, {}, 0, cmdqv_reset(Cur, ch))

\* the SMMU gains or loses its vIOMMU association
SmmuViommu ==
    /\ ~aborted
    /\ bs_viommu' = IF bs_viommu = NULL THEN VIOMMU ELSE NULL
    /\ last' = [NoCall EXCEPT !.op = "smmu"]
    /\ UNCHANGED <<s, page, kobjs, aborted, be, os, be_last>>

\* the physical device updates a word of the live page
HwPage(words, values) ==
    \E w \in words, v \in values :
        /\ ~aborted
        /\ s.vcmdq_page0 # NULL
        /\ page' = Store(page, w, U32(v), {})
        /\ last' = [NoCall EXCEPT !.op = "hw", !.offset = w, !.value = U32(v)]
        /\ UNCHANGED <<s, kobjs, bs_viommu, aborted, be, os, be_last>>

(* ------------------------------------------------------------------ *)
(* Queue lifecycle: base-register writes, reset, SMMU association     *)
(* ------------------------------------------------------------------ *)
\* a valid queue with junk above bit 47; an address outside RAM; log2size 0
BaseValues == {{3, 30, 49}, {3, 32}, {17}}

VCMDQ(i, offset) == offset + VCMDQ_STRIDE * i

\* queue 127: low half (32-bit), both halves (64-bit), high half (32-bit)
BaseAccesses ==
    {<<VCMDQ(127, A_VCMDQ0_BASE_L), 4>>, <<VCMDQ(127, A_VCMDQ0_BASE_L), 8>>,
     <<VCMDQ(127, A_VCMDQ0_BASE_H), 4>>}

WriteBase == GuestWrite(BaseAccesses, BaseValues)

Next == WriteBase \/ DeviceReset \/ SmmuViommu

Spec == Init /\ [][Next]_vars

(* ------------------------------------------------------------------ *)
(* Properties of the queue lifecycle                                  *)
(* ------------------------------------------------------------------ *)
IsBaseWrite(c) == c.op = "write" /\ IsBaseOffset(c.offset)
IsLowHalf(offset) == (AliasOffset(offset) - VCMDQ_BASE_BASE) % VCMDQ_STRIDE = 0
IsHighHalf(offset) == (AliasOffset(offset) - VCMDQ_BASE_BASE) % VCMDQ_STRIDE = 4
ShadowBase(st, i) == Word(st.vcmdq_base, i)

\* the preconditions of a reconfiguration, read off the shadow base
Log2SizeField(base) == base \cap (0..4)
AddressField(base) == base \cap (5..47)
InGuestRam(addr) == 30 \in addr /\ addr \cap (31..63) = {}
PreconditionsHold(st, bsv, i) ==
    /\ bsv # NULL
    /\ Log2SizeField(ShadowBase(st, i)) # {}
    /\ InGuestRam(AddressField(ShadowBase(st, i)))

SetupFailed(c) ==
    /\ Len(c.setups) = 1
    /\ c.setups[1].ret \in {"ENODEV", "EINVAL"}

IsAlloc(r) == r.req = "IOMMU_VQUEUE_ALLOC"
IsDestroy(r) == r.req = "IOMMU_DESTROY"

\* C1: after a base-register write for slot i whose reconfiguration attempt
\* fails (no vIOMMU, log2size 0, base not RAM, or allocation rejected),
\* vqueue[i] is empty and the kernel holds no queue object created for slot i.
C1_FailedSetupLeavesNoQueue ==
    (IsBaseWrite(last) /\ SetupFailed(last)) =>
        /\ Vqueue(s, BaseIndex(last.offset)) = NoVqueue
        /\ \A id \in DOMAIN kobjs : kobjs[id] # BaseIndex(last.offset)

\* C2: a reconfiguration that passes the preconditions while the slot holds
\* a live queue object issues the destroy request for the old id and then
\* the allocate request; when the allocation succeeds the slot records the
\* id the kernel returned, and the old object is gone from the kernel
\* whenever the kernel accepted its destruction.
C2_DestroyThenAllocate ==
    [][(/\ IsBaseWrite(last')
        /\ Vqueue(s, BaseIndex(last'.offset)).state = "live"
        /\ PreconditionsHold(s', bs_viommu, BaseIndex(last'.offset)))
       => LET i == BaseIndex(last'.offset)
              old == Vqueue(s, i).vqueue_id
              r == last'.reqs
          IN /\ Len(r) = 2
             /\ IsDestroy(r[1]) /\ r[1].id = old
             /\ IsAlloc(r[2])
             /\ r[2].ok =>
                  /\ Vqueue(s', i) = LiveVqueue(r[2].id)
                  /\ r[2].id \in DOMAIN kobjs' /\ kobjs'[r[2].id] = i
                  /\ r[1].ok => (old \notin DOMAIN kobjs' \/ old = r[2].id)]_vars

C2_Witness ==
    /\ IsBaseWrite(last) /\ Len(last.setups) = 1 /\ Len(last.reqs) = 2
    /\ last.setups[1].old.state = "live"
    /\ last.setups[1].ret = "OK"
    /\ last.reqs[1].ok
    /\ last.reqs[2].id # last.reqs[1].id
    /\ Vqueue(s, BaseIndex(last.offset)) = LiveVqueue(last.reqs[2].id)

\* C3: a base-register write made with no vIOMMU association, a log2size
\* field of 0 or a base outside guest RAM issues no allocation request,
\* leaves an empty slot empty and returns without a fault.
C3_PreconditionFailureIsQuiet ==
    [][(/\ IsBaseWrite(last')
        /\ ~PreconditionsHold(s', bs_viommu, BaseIndex(last'.offset)))
       => /\ \A k \in 1..Len(last'.reqs) : ~IsAlloc(last'.reqs[k])
          /\ Vqueue(s, BaseIndex(last'.offset)) = NoVqueue
                => Vqueue(s', BaseIndex(last'.offset)) = NoVqueue
          /\ ~aborted']_vars

C3_Witness ==
    /\ IsBaseWrite(last) /\ SetupFailed(last) /\ last.reqs = <<>>
    /\ bs_viommu # NULL
    /\ Log2SizeField(ShadowBase(s, BaseIndex(last.offset))) # {}
    /\ ~InGuestRam(AddressField(ShadowBase(s, BaseIndex(last.offset))))
    /\ Vqueue(s, BaseIndex(last.offset)) = NoVqueue
    /\ ~aborted

PowerOnDefaults(st) ==
    /\ st.config = {0, 1, 10, 17}
    /\ st.param = {0, 4, 14}
    /\ st.status = {0}
    /\ \A i \in 0..1 : st.vi_err_map[i] = {} /\ st.vi_int_mask[i] = {}
                       /\ st.cmdq_err_map[i] = {}
    /\ st.vintf_config = {} /\ st.vintf_status = {}
    /\ \A i \in 0..3 : st.vintf_cmdq_err_map[i] = {}
    /\ \A i \in Queues :
          /\ Word(st.cmdq_alloc_map, i) = {}
          /\ Word(st.vcmdq_cons_indx, i) = {} /\ Word(st.vcmdq_prod_indx, i) = {}
          /\ Word(st.vcmdq_config, i) = {} /\ Word(st.vcmdq_status, i) = {}
          /\ Word(st.vcmdq_gerror, i) = {} /\ Word(st.vcmdq_gerrorn, i) = {}
          /\ Word(st.vcmdq_base, i) = {}
          /\ Word(st.vcmdq_cons_indx_base, i) = {}

\* C4: after a device reset from any reachable state all 128 slots are
\* empty, a destroy request has been issued for every queue object a slot
\* recorded, and every shadow register holds its power-on default.
C4_ResetRestoresPowerOn ==
    [][last'.op = "reset"
       => /\ \A i \in Queues : Vqueue(s', i) = NoVqueue
          /\ \A i \in Queues :
                Vqueue(s, i).state = "live"
                   => \E k \in 1..Len(last'.reqs) :
                         /\ IsDestroy(last'.reqs[k])
                         /\ last'.reqs[k].id = Vqueue(s, i).vqueue_id
          /\ PowerOnDefaults(s')]_vars

\* C5: every 32-bit or 64-bit write to a base register completes with the
\* shadow base as written whatever the reconfiguration did: the write
\* returns to the guest, and reading the low and high base registers
\* afterwards gives the written halves.
C5_BaseShadowAsWritten ==
    IsBaseWrite(last) =>
        LET i == BaseIndex(last.offset)
            lo == ReadDecode(Cur, VCMDQ(i, A_VCMDQ0_BASE_L)).ret
            hi == ReadDecode(Cur, VCMDQ(i, A_VCMDQ0_BASE_H)).ret
        IN /\ (IsLowHalf(last.offset) /\ last.size = 8)
                => /\ ShadowBase(s, i) = last.value
                   /\ U32(lo) = U32(last.value)
                   /\ Shl32(U32(hi)) = last.value \cap (32..63)
           /\ (IsLowHalf(last.offset) /\ last.size = 4)
                => U32(lo) = U32(last.value)
           /\ IsHighHalf(last.offset) => U32(hi) = U32(last.value)
           /\ ~aborted

\* C6: a 32-bit write to the low half of queue i's base register keeps bits
\* 63..32 of the shadow base, replaces bits 31..0 by the value written and
\* makes exactly one reconfiguration attempt, for slot i, with log2size and
\* address taken from the combined 64-bit shadow value.
C6_LowHalfWrite ==
    [][(/\ IsBaseWrite(last') /\ IsLowHalf(last'.offset) /\ last'.size = 4)
       => LET i == BaseIndex(last'.offset)
          IN /\ ShadowBase(s', i) \cap (32..63) = ShadowBase(s, i) \cap (32..63)
             /\ ShadowBase(s', i) \cap (0..31) = last'.value \cap (0..31)
             /\ Len(last'.setups) = 1
             /\ last'.setups[1].index = i
             /\ last'.setups[1].data.vcmdq_log2size
                    = Log2SizeField(ShadowBase(s', i))
             /\ last'.setups[1].data.vcmdq_base
                    = AddressField(ShadowBase(s', i))]_vars

C6_Witness ==
    /\ IsBaseWrite(last) /\ IsLowHalf(last.offset) /\ last.size = 4
    /\ ShadowBase(s, BaseIndex(last.offset)) \cap (32..47) # {}
    /\ last.value \cap (0..31) # {}
    /\ Len(last.setups) = 1
    /\ last.setups[1].data.vcmdq_base \cap (32..47) # {}


(* ------------------------------------------------------------------ *)
(* Shadow registers: config, VINTF0 config/status, the DRAM mirror    *)
(* ------------------------------------------------------------------ *)
\* ENABLE with HYP_OWN; a value sharing no bit with it
RegValues == {{0, 17}, {1}}

RegWrites ==
    {<<A_CONFIG, 4>>, <<A_VINTF0_CONFIG, 4>>,
     <<VCMDQ(1, A_VCMDQ0_CONS_INDX_BASE_DRAM_L), 4>>,
     <<VCMDQ(1, A_VCMDQ0_CONS_INDX_BASE_DRAM_L), 8>>,
     <<VCMDQ(1, A_VCMDQ0_CONS_INDX_BASE_DRAM_H), 4>>}

RegReads == {<<A_VINTF0_CONFIG, 4>>, <<A_VINTF0_STATUS, 4>>}

WriteReg == GuestWrite(RegWrites, RegValues)

ReadReg == GuestRead(RegReads)

NextRegs == WriteReg \/ ReadReg \/ DeviceReset

SpecRegs == Init /\ [][NextRegs]_vars

\* the registers kept only in the shadow copy
IsShadowOnly(offset) ==
    \/ offset = A_CONFIG
    \/ offset >= A_VI_INT_MASK /\ offset <= A_VI_INT_MASK_1
    \/ offset >= A_CMDQ_ALLOC_MAP_0 /\ offset <= A_CMDQ_ALLOC_MAP_127
    \/ offset = A_VINTF0_CONFIG
    \/ /\ offset >= A_VCMDQ0_BASE_L
       /\ offset <= A_VCMDQ127_CONS_INDX_BASE_DRAM_H
       /\ (offset - VCMDQ_BASE_BASE) % VCMDQ_STRIDE \in {0, 4, 8, 12}

Width(v, size) == v \cap (0 .. 8 * size - 1)

\* C7: a read of a shadow-only register at the offset just written returns
\* the value written, except that bit 17 of the virtual-interface config
\* reads back as 0.
C7_ShadowRoundTrip ==
    (last.op = "write" /\ IsShadowOnly(last.offset)) =>
        \A ch \in ReadChoices(s) :
            Width(tegra241_cmdqv_read(Cur, last.offset, last.size, ch).ret,
                  last.size)
              = IF last.offset = A_VINTF0_CONFIG
                THEN last.value \ {17}
                ELSE last.value

\* C8: bit 17 of the stored virtual-interface config is clear in every
\* reachable state, and so is bit 17 of what a read of the register returns.
C8_HypOwnNeverStored ==
    /\ 17 \notin s.vintf_config
    /\ \A ch \in ReadChoices(s) :
          17 \notin tegra241_cmdqv_read(Cur, A_VINTF0_CONFIG, 4, ch).ret

C8_Witness ==
    /\ last.op = "write" /\ last.offset = A_VINTF0_CONFIG
    /\ 17 \in last.value
    /\ s.vintf_config = last.value \ {17}
    /\ s.vintf_config # {}

\* C9: the enable-acknowledged bit (bit 0) of the virtual-interface status
\* is set exactly when the enable bit (bit 0) of the virtual-interface
\* config is set, and a read of the status register returns it so.
C9_EnableOkFollowsEnable ==
    /\ 0 \in s.vintf_status <=> 0 \in s.vintf_config
    /\ (last.op = "read" /\ last.offset = A_VINTF0_STATUS)
          => (0 \in last.ret <=> 0 \in s.vintf_config)

C9_Witness ==
    /\ last.op = "read" /\ last.offset = A_VINTF0_STATUS
    /\ 0 \in last.ret
    /\ 0 \in s.vintf_config

(* ------------------------------------------------------------------ *)
(* The alias windows                                                  *)
(* ------------------------------------------------------------------ *)
AliasValues == {{3, 30}, {17}}

\* queue 0: the base register through both windows, a page register
\* through the alias
AliasAccesses ==
    {<<VCMDQ(0, A_VCMDQ0_BASE_L), 8>>,
     <<VCMDQ(0, A_VCMDQ0_BASE_L) + VI_ALIAS_OFFSET, 8>>,
     <<VCMDQ(0, A_VCMDQ0_CONS_INDX) + VI_ALIAS_OFFSET, 4>>}

WriteAlias == GuestWrite(AliasAccesses, AliasValues)

NextAlias == WriteAlias \/ SmmuViommu

SpecAlias == Init /\ [][NextAlias]_vars

\* the per-queue registers of the two primary windows, for the first and
\* the last queue
PerQueueRegs ==
    {A_VCMDQ0_CONS_INDX, A_VCMDQ0_PROD_INDX, A_VCMDQ0_CONFIG, A_VCMDQ0_STATUS,
     A_VCMDQ0_GERROR, A_VCMDQ0_GERRORN, A_VCMDQ0_BASE_L, A_VCMDQ0_BASE_H,
     A_VCMDQ0_CONS_INDX_BASE_DRAM_L, A_VCMDQ0_CONS_INDX_BASE_DRAM_H}
PrimaryOffsets == {VCMDQ(q, r) : q \in {0, 127}, r \in PerQueueRegs}
ProbeValues == AliasValues \cup {{0, 3, 30, 40}}

\* C10: a write at o + 0x20000, o a per-queue register of a primary window,
\* leaves the same shadow registers, live page, queue slots and kernel
\* objects and issues the same kernel requests as the same write at o.
C10_AliasWriteEquivalent ==
    \A o \in PrimaryOffsets, v \in ProbeValues, size \in {4, 8} :
        \A ch \in WriteChoices(Cur, o, Width(v, size), size) :
            tegra241_cmdqv_write(Cur, o + 131072, Width(v, size), size, ch)
              = tegra241_cmdqv_write(Cur, o, Width(v, size), size, ch)

C10_Witness ==
    /\ last.op = "write"
    /\ last.offset = VCMDQ(0, A_VCMDQ0_BASE_L) + 131072
    /\ Len(last.reqs) = 2
    /\ IsDestroy(last.reqs[1]) /\ IsAlloc(last.reqs[2]) /\ last.reqs[2].ok
    /\ Vqueue(s, 0) = LiveVqueue(last.reqs[2].id)
    /\ ShadowBase(s, 0) = last.value


\* once the live page is mapped, the page overlays at 0x10000 and 0x30000
\* take the accesses of those windows; every other access reaches the
\* handlers of the register file
HandledByRegisterFile(st, offset) ==
    \/ st.vcmdq_page0 = NULL
    \/ ~ \/ (offset >= VCMDQ_PAGE_BASE /\ offset < VCMDQ_PAGE_BASE + VCMDQ_REG_PAGE_SIZE)
         \/ (offset >= A_VI_VCMDQ0_CONS_INDX
             /\ offset < A_VI_VCMDQ0_CONS_INDX + VCMDQ_REG_PAGE_SIZE)

\* C11: a read the register file handles at o + 0x20000, o a per-queue
\* register of a primary window, returns what a read at o returns in the
\* same state.
C11_AliasReadEquivalent ==
    \A o \in PrimaryOffsets, size \in {4, 8} :
        HandledByRegisterFile(s, o + 131072) =>
            \A ch \in ReadChoices(s) :
                tegra241_cmdqv_read(Cur, o + 131072, size, ch).ret
                  = tegra241_cmdqv_read(Cur, o, size, ch).ret


(* ------------------------------------------------------------------ *)
(* The allocation map                                                 *)
(* ------------------------------------------------------------------ *)
CMDQ_ALLOC_MAP(i) == A_CMDQ_ALLOC_MAP_0 + 4 * i

MapValues == {{0}, {0, 1, 15}}

\* entries 0, 1, 32 and 127
MapAccesses == {<<CMDQ_ALLOC_MAP(i), 4>> : i \in {0, 1, 32, 127}}

WriteMap == GuestWrite(MapAccesses, MapValues)

ReadMap == GuestRead(MapAccesses)

NextMap == WriteMap \/ ReadMap \/ DeviceReset

SpecMap == Init /\ [][NextMap]_vars

\* what a read of allocation-map entry j returns in machine m
AllocMapEntry(m, j) == ReadDecode(m, 512 + 4 * j).ret

\* C12: a write to allocation-map entry i (offset 0x200 + 4*i) makes entry i
\* read as the value written and leaves the value read from every other
\* entry as it was.
C12_AllocMapEntriesIndependent ==
    [][(/\ last'.op = "write"
        /\ last'.offset \in {512 + 4 * i : i \in 0..127})
       => LET i == (last'.offset - 512) \div 4
          IN /\ AllocMapEntry(Cur', i) = last'.value
             /\ \A j \in (0..127) \ {i} :
                   AllocMapEntry(Cur', j) = AllocMapEntry(Cur, j)]_vars


(* ------------------------------------------------------------------ *)
(* The live page                                                      *)
(* ------------------------------------------------------------------ *)
PageValues == {{0}, {1, 24}}

\* queue 1: the consumer index and gerror-ack are written, the consumer
\* index and status read, and the device updates both words it owns
PageWrites ==
    {<<VCMDQ(1, A_VCMDQ0_CONS_INDX), 4>>, <<VCMDQ(1, A_VCMDQ0_GERRORN), 4>>}
PageReads ==
    {<<VCMDQ(1, A_VCMDQ0_CONS_INDX), 4>>, <<VCMDQ(1, A_VCMDQ0_STATUS), 4>>}
HwWords ==
    {PagePtr(1, A_VCMDQ0_CONS_INDX), PagePtr(1, A_VCMDQ0_STATUS)}

WritePage == GuestWrite(PageWrites, PageValues)

ReadPage == GuestRead(PageReads)

HwUpdate == HwPage(HwWords, PageValues)

NextPage == WritePage \/ ReadPage \/ HwUpdate

SpecPage == Init /\ [][NextPage]_vars

\* the shadow copy of the page register at field offset f of queue i
ShadowField(st, f, i) ==
    Word(CASE f = 0 -> st.vcmdq_cons_indx
           [] f = 4 -> st.vcmdq_prod_indx
           [] f = 8 -> st.vcmdq_config
           [] f = 12 -> st.vcmdq_status
           [] f = 16 -> st.vcmdq_gerror
           [] f = 20 -> st.vcmdq_gerrorn, i)

InPageWindow(offset) == offset >= 65536 /\ offset < 65536 + 128 * 128

\* C13: with the live page mapped, a write of v to queue i's consumer-index,
\* producer-index, config or gerror-ack register leaves both the shadow
\* value and the page word at 0x80*i + field equal to v; a read of one of
\* the six page registers returns the page word as it is and leaves the
\* shadow equal to it.
C13_LivePageMirror ==
    [][LET o == last'.offset
           i == (o - 65536) \div 128
           f == (o - 65536) % 128
       IN /\ (/\ last'.op = "write" /\ InPageWindow(o) /\ f \in {0, 4, 8, 20}
              /\ s'.vcmdq_page0 # NULL)
             => /\ ~aborted'
                /\ ShadowField(s', f, i) = last'.value
                /\ Word(page', 128 * i + f) = last'.value
          /\ (/\ last'.op = "read" /\ InPageWindow(o)
              /\ f \in {0, 4, 8, 12, 16, 20}
              /\ s'.vcmdq_page0 # NULL)
             => /\ ~aborted'
                /\ page' = page
                /\ last'.ret = Word(page, 128 * i + f)
                /\ ShadowField(s', f, i) = Word(page, 128 * i + f)]_vars

C13_Witness ==
    /\ last.op = "read" /\ last.offset = VCMDQ(1, A_VCMDQ0_STATUS)
    /\ last.ret = {1, 24}
    /\ s.vcmdq_status[1] = {1, 24}
    /\ Word(page, 128 + 12) = {1, 24}
    /\ Word(s.vcmdq_cons_indx, 1) = {1, 24}
    /\ Word(page, 128) = {0}


(* ------------------------------------------------------------------ *)
(* Offsets without a register                                         *)
(* ------------------------------------------------------------------ *)
\* a gap of the global block, a gap of queue 0's page registers, the first
\* offset past the handlers' limit and one further out
StrayAccesses == {<<12, 4>>, <<65536 + 24, 4>>, <<MMIO_LIMIT + 4, 4>>,
                  <<MMIO_LIMIT + MMIO_LIMIT, 4>>}

WriteStray == GuestWrite(StrayAccesses, RegValues)

ReadStray == GuestRead(StrayAccesses)

NextStray == WriteStray \/ ReadStray \/ WriteReg \/ DeviceReset

SpecStray == Init /\ [][NextStray]_vars

\* the offsets of the 0x50000 window at which a register is defined
HasRegister(o) ==
    \/ o \in {0, 4, 8}
    \/ o >= 20 /\ o <= 48
    \/ o >= 512 /\ o <= 1020
    \/ o \in {4096, 4100}
    \/ o >= 4288 /\ o <= 4300
    \/ \E w \in {65536, 196608} :
          o >= w /\ o < w + 128 * 128 /\ (o - w) % 128 \in {0, 4, 8, 12, 16, 20}
    \/ \E w \in {131072, 262144} :
          o >= w /\ o < w + 128 * 128 /\ (o - w) % 128 \in {0, 4, 8, 12}

\* C14: a read at an offset with no register, or beyond the 0x50000 window,
\* returns 0 and a write there is ignored: the shadow registers, the queue
\* slots and the mapping state of the live page (all in s), the page words
\* and the kernel objects stay as they were, no request is issued and no
\* attempt to map the page is made.
C14_StrayAccessChangesNothing ==
    [][(/\ last'.op \in {"read", "write"}
        /\ (last'.offset > 327680 \/ ~HasRegister(last'.offset)))
       => /\ last'.op = "read" => last'.ret = {}
          /\ s' = s /\ page' = page /\ kobjs' = kobjs
          /\ last'.reqs = <<>> /\ last'.maps = 0
          /\ ~aborted']_vars


(* ------------------------------------------------------------------ *)
(* Calls on the backend handle                                        *)
(* ------------------------------------------------------------------ *)
MaxUsers == 2
MaxEntries == 2

\* descriptors qemu_open_old can return, descriptors the monitor can hand in
OwnFds == {3, 4}
ExternalFds == {5}
Iovas == {0, 4096}

CurBe == Backend(be, os.open, os.mapped, os.aborted)

\* users0 is the count at the call; prev is the call before
BeCommitMap(op, arg, readonly, b, fin) ==
    /\ be' = b.be
    /\ os' = [open |-> b.open, mapped |-> b.mapped, aborted |-> b.aborted,
              finalized |-> fin]
    /\ be_last' = [op |-> op, arg |-> arg, ret |-> b.ret, opens |-> b.opens,
                   closes |-> b.closes, flags |-> b.flags,
                   readonly |-> readonly, kernel |-> b.kernel,
                   entry_num |-> b.entry_num, users0 |-> be.users,
                   prev |-> [op |-> be_last.op, arg |-> be_last.arg,
                             ret |-> be_last.ret]]
    /\ UNCHANGED <<s, page, kobjs, bs_viommu, aborted, last>>

BeCommit(op, arg, b, fin) == BeCommitMap(op, arg, FALSE, b, fin)

InUse == ~os.aborted /\ ~os.finalized

\* the kernel's answers to an ioctl; e is the entry count it writes back
KernelAnswersOf(errnos, counts) ==
    {[ret |-> 0, errno |-> 0, entry_num |-> e] : e \in counts}
      \cup {[ret |-> -1, errno |-> x, entry_num |-> e] :
               x \in errnos, e \in counts}

KernelAnswers(counts) == KernelAnswersOf(Errnos, counts)

\* what qemu_open_old returns: -1, or a descriptor not yet open
OpenResults ==
    IF be.owned /\ be.users = 0 THEN {-1} \cup (OwnFds \ os.open) ELSE {-1}

\* object creation after the previous handle is gone
BackendInit ==
    /\ os.finalized /\ ~os.aborted
    /\ BeCommit("init", 0, iommufd_backend_init(CurBe), FALSE)

\* iommufd_backend_can_be_deleted: only a handle without users is deleted
BackendFinalize ==
    /\ InUse /\ be.users = 0
    /\ BeCommit("finalize", 0, iommufd_backend_finalize(CurBe), TRUE)

BackendSetFd ==
    \E fd \in ExternalFds \cup {-1} :
        /\ InUse
        /\ BeCommit("set_fd", fd, iommufd_backend_set_fd(CurBe, fd), FALSE)

BackendConnect ==
    \E fd \in OpenResults :
        /\ InUse /\ be.users < MaxUsers
        /\ BeCommit("connect", fd, iommufd_backend_connect(CurBe, fd), FALSE)

BackendDisconnect ==
    /\ InUse
    /\ BeCommit("disconnect", 0, iommufd_backend_disconnect(CurBe), FALSE)

BackendMap ==
    \E iova \in Iovas, readonly \in BOOLEAN,
       k \in KernelAnswersOf({EFAULT, EINVAL}, {0}) :
        /\ InUse
        /\ BeCommitMap("map", iova, readonly,
                       iommufd_backend_map_dma(CurBe, iova, readonly, k), FALSE)

BackendUnmap ==
    \E iova \in Iovas, k \in KernelAnswers({0}) :
        /\ InUse
        /\ BeCommit("unmap", iova, iommufd_backend_unmap_dma(CurBe, iova, k),
                    FALSE)

BackendInvalidate ==
    \E n \in 1..MaxEntries, k \in KernelAnswers(0..MaxEntries) :
        /\ InUse
        /\ BeCommit("invalidate_cache", n,
                    iommufd_backend_invalidate_cache(CurBe, n, k), FALSE)

BackendInvalidateDev ==
    \E n \in 1..MaxEntries, k \in KernelAnswers(0..MaxEntries) :
        /\ InUse
        /\ BeCommit("invalidate_dev_cache", n,
                    iommufd_backend_invalidate_dev_cache(CurBe, n, k), FALSE)

NextHandle ==
    \/ BackendInit \/ BackendFinalize \/ BackendSetFd
    \/ BackendConnect \/ BackendDisconnect

SpecHandle == Init /\ [][NextHandle]_vars

NextIoas ==
    \/ BackendConnect \/ BackendDisconnect \/ BackendMap \/ BackendUnmap
    \/ BackendInvalidate \/ BackendInvalidateDev

SpecIoas == Init /\ [][NextIoas]_vars


(* ------------------------------------------------------------------ *)
(* Properties of the backend handle                                   *)
(* ------------------------------------------------------------------ *)
BeCalled(c, op) == c.op = op

\* C15: the reference count is exact: a connect that succeeds adds 1, a
\* disconnect at a positive count subtracts 1, and a disconnect at count 0
\* leaves the count 0, the descriptor field and the open descriptors as
\* they are and closes nothing.
C15_ReferenceCountExact ==
    [][/\ (BeCalled(be_last', "connect") /\ be_last'.ret = 0)
             => be'.users = be.users + 1
       /\ (BeCalled(be_last', "disconnect") /\ be.users > 0)
             => be'.users = be.users - 1
       /\ (BeCalled(be_last', "disconnect") /\ be.users = 0)
             => /\ be' = be
                /\ os' = os
                /\ be_last'.closes = <<>>]_vars

C15_Witness ==
    /\ BeCalled(be_last, "disconnect")
    /\ be_last.users0 = 0
    /\ be_last.prev.op = "disconnect"
    /\ be.users = 0
    /\ be.fd \in ExternalFds /\ be.fd \in os.open

\* C16: in every reachable state of a handle the descriptor is valid (not
\* -1) exactly when the reference count is greater than zero.
C16_DescriptorValidIffUsed ==
    InUse => (be.fd # -1 <=> be.users > 0)

\* C16 as the code has it: on a handle that opens the kernel path itself
\* the descriptor is valid exactly when the reference count is greater
\* than zero; on a handle given an external descriptor the descriptor is
\* valid from the moment it is given, whatever the count.
C16_DescriptorValidIffUsedWhenOwned ==
    IF be.owned THEN be.fd # -1 <=> be.users > 0
    ELSE be.fd # -1

C16_Witness ==
    /\ BeCalled(be_last, "set_fd")
    /\ be_last.arg # -1 /\ be.fd = be_last.arg
    /\ ~be.owned
    /\ be.users = 0
    /\ be_last.prev.op = "disconnect"

\* C17: on a handle that owns its descriptor, a disconnect closes the
\* descriptor when it takes the count from 1 to 0 and closes nothing
\* otherwise; on a handle given an external descriptor, connect, disconnect
\* and finalize close nothing, leave the descriptor open and recorded, and
\* connect does not open the kernel path.
C17_CloseOnlyOwnedLastUser ==
    [][/\ (BeCalled(be_last', "disconnect") /\ be.owned)
             => be_last'.closes = IF be.users = 1 THEN <<be.fd>> ELSE <<>>
       /\ (be_last'.op \in {"connect", "disconnect", "finalize"} /\ ~be.owned)
             => /\ be_last'.closes = <<>>
                /\ be_last'.opens = 0
                /\ be'.fd = be.fd
                /\ os'.open = os.open]_vars

C17_Witness ==
    /\ BeCalled(be_last, "disconnect")
    /\ ~be.owned
    /\ be_last.users0 = 1 /\ be.users = 0
    /\ be_last.closes = <<>>
    /\ be.fd \in os.open

\* C18: on an owning handle connect tries to open the kernel path exactly
\* when the count is 0; when the open fails it returns an error and leaves
\* the count and the descriptor as they were.
C18_OpenOnFirstConnect ==
    [][(BeCalled(be_last', "connect") /\ be.owned)
       => /\ be_last'.opens = IF be.users = 0 THEN 1 ELSE 0
          /\ (be_last'.opens = 1 /\ be_last'.arg < 0)
                => /\ be_last'.ret < 0
                   /\ be' = be
                   /\ os'.open = os.open]_vars

C18_Witness ==
    /\ BeCalled(be_last, "connect")
    /\ be_last.opens = 1 /\ be_last.ret = 0
    /\ be_last.prev.op = "connect" /\ be_last.prev.ret < 0
    /\ be.owned /\ be.users = 1 /\ be.fd \in os.open

\* C19: unmap returns 0 whenever the kernel's answer is ENOENT, which it is
\* on every call for a range that is not mapped, and returns a negative
\* code for every other failure of the kernel.
C19_UnmapAbsentIsSuccess ==
    [][BeCalled(be_last', "unmap")
       => /\ (be_last'.kernel.ret # 0 /\ be_last'.kernel.errno = ENOENT)
                => be_last'.ret = 0
          /\ (be.fd \in os.open /\ be_last'.arg \notin os.mapped)
                => be_last'.ret = 0
          /\ (be_last'.kernel.ret # 0 /\ be_last'.kernel.errno # ENOENT)
                => be_last'.ret < 0
          /\ be_last'.kernel.ret = 0 => be_last'.ret = 0]_vars

C19_Witness ==
    /\ BeCalled(be_last, "unmap")
    /\ be_last.kernel.ret # 0 /\ be_last.kernel.errno = ENOENT
    /\ be_last.ret = 0
    /\ be_last.prev.op = "unmap" /\ be_last.prev.arg = be_last.arg
    /\ be_last.prev.ret = 0
    /\ os.mapped = {}

\* C20: an invalidation call ends in one of three ways: the kernel succeeds
\* with the requested count (0 is returned, the count is left as it was);
\* the kernel rejects the call (a negative code is returned and the count
\* the kernel reported is written back); the kernel succeeds with another
\* count (the assertion fails and the call does not return).
C20_InvalidateOutcomes ==
    (be_last.op \in {"invalidate_cache", "invalidate_dev_cache"}) =>
        LET k == be_last.kernel
            requested == be_last.arg
        IN /\ (k.ret = 0 /\ k.entry_num = requested)
                => /\ ~os.aborted
                   /\ be_last.ret = 0 /\ be_last.entry_num = requested
           /\ k.ret # 0
                => /\ ~os.aborted
                   /\ be_last.ret < 0 /\ be_last.entry_num = k.entry_num
           /\ (k.ret = 0 /\ k.entry_num # requested) => os.aborted

C20_Witness ==
    /\ BeCalled(be_last, "invalidate_cache")
    /\ be_last.kernel.ret # 0
    /\ be_last.kernel.entry_num # be_last.arg
    /\ be_last.entry_num = be_last.kernel.entry_num
    /\ be_last.ret < 0


(* ------------------------------------------------------------------ *)
(* Properties of the kernel requests a call issues                    *)
(* ------------------------------------------------------------------ *)
Destroys(r) == {k \in 1..Len(r) : IsDestroy(r[k])}
EveryDestroyFailed(r) == Destroys(r) # {} /\ \A k \in Destroys(r) : ~r[k].ok

\* C21: a failing kernel destroy request blocks neither teardown nor
\* replacement: a device reset whose destroy requests all fail still ends
\* with all 128 slots empty and the shadow registers at their defaults, and
\* a reconfiguration whose destroy request fails still goes on to issue the
\* allocation request for the replacement queue.
C21_DestroyFailureDoesNotBlock ==
    [][EveryDestroyFailed(last'.reqs)
       => /\ ~aborted'
          /\ last'.op = "reset"
                => /\ \A i \in Queues : Vqueue(s', i) = NoVqueue
                   /\ PowerOnDefaults(s')
          /\ IsBaseWrite(last')
                => \E k \in 1..Len(last'.reqs) :
                      /\ IsAlloc(last'.reqs[k])
                      /\ \A d \in Destroys(last'.reqs) : d < k]_vars


\* C22: every map request carries the readable and the fixed-IOVA flag and
\* carries the writable flag exactly when readonly is false; map returns a
\* negative code when the kernel rejects the request, with EFAULT as with
\* any other errno, and returns 0 only when the kernel accepted the mapping.
C22_MapFlagsAndResult ==
    BeCalled(be_last, "map") =>
        /\ {"IOMMU_IOAS_MAP_READABLE", "IOMMU_IOAS_MAP_FIXED_IOVA"}
               \subseteq be_last.flags
        /\ ("IOMMU_IOAS_MAP_WRITEABLE" \in be_last.flags) <=> ~be_last.readonly
        /\ be_last.kernel.ret # 0 => be_last.ret < 0
        /\ be_last.ret = 0 <=> be_last.kernel.ret = 0
        /\ (be_last.ret = 0 /\ be.fd \in os.open) => be_last.arg \in os.mapped

C22_Witness ==
    /\ BeCalled(be_last, "map")
    /\ be_last.readonly
    /\ be_last.kernel.ret # 0 /\ be_last.kernel.errno = EFAULT
    /\ be_last.ret = -EFAULT
    /\ "IOMMU_IOAS_MAP_WRITEABLE" \notin be_last.flags
    /\ be_last.arg \notin os.mapped


(* ------------------------------------------------------------------ *)
(* Two queues side by side                                            *)
(* ------------------------------------------------------------------ *)
\* queue 0 through the alias window, queue 1 through the primary one: the
\* low base half of each, and a page register of queue 1
PairAccesses ==
    {<<VCMDQ(0, A_VCMDQ0_BASE_L) + VI_ALIAS_OFFSET, 4>>,
     <<VCMDQ(1, A_VCMDQ0_BASE_L), 4>>,
     <<VCMDQ(1, A_VCMDQ0_PROD_INDX), 4>>}

WritePair == GuestWrite(PairAccesses, {{3, 30}})

NextPair == WritePair \/ SmmuViommu

SpecPair == Init /\ [][NextPair]_vars


\* the windows of the per-queue registers, and the queue an offset names
IsPerQueueOffset(offset) ==
    LET o == AliasOffset(offset)
    IN \/ o >= A_VCMDQ0_CONS_INDX /\ o <= A_VCMDQ127_GERRORN
       \/ o >= A_VCMDQ0_BASE_L /\ o <= A_VCMDQ127_CONS_INDX_BASE_DRAM_H

QueueOf(offset) ==
    LET o == AliasOffset(offset)
    IN IF o < VCMDQ_BASE_BASE
       THEN (o - VCMDQ_PAGE_BASE) \div VCMDQ_STRIDE
       ELSE (o - VCMDQ_BASE_BASE) \div VCMDQ_STRIDE

\* all that belongs to slot j: shadow registers, page words, queue pointer
\* and the kernel objects created for it
SlotState(st, pg, ko, j) ==
    [shadow |-> [f \in PageFields |-> ShadowField(st, f, j)],
     base |-> Word(st.vcmdq_base, j),
     cons_indx_base |-> Word(st.vcmdq_cons_indx_base, j),
     words |-> [f \in PageFields |-> Word(pg, VCMDQ_STRIDE * j + f)],
     vqueue |-> Vqueue(st, j),
     kernel |-> {id \in DOMAIN ko : ko[id] = j}]

GlobalRegs(st) ==
    <<st.config, st.param, st.status, st.vi_err_map, st.vi_int_mask,
      st.cmdq_err_map, st.cmdq_alloc_map, st.vintf_config, st.vintf_status,
      st.vintf_cmdq_err_map>>

\* C23: a write to a per-queue register of queue i, through the primary or
\* the alias window and whatever a reconfiguration it triggers does, leaves
\* the shadow registers, the page words, the queue pointer and the kernel
\* objects of every other slot, and all global and virtual-interface
\* registers, as they were.
C23_WriteTouchesOneQueue ==
    [][(last'.op = "write" /\ IsPerQueueOffset(last'.offset))
       => /\ \A j \in Queues \ {QueueOf(last'.offset)} :
                SlotState(s', page', kobjs', j) = SlotState(s, page, kobjs, j)
          /\ GlobalRegs(s') = GlobalRegs(s)]_vars


(* ------------------------------------------------------------------ *)
(* Reconfiguration per base-register write                            *)
(* ------------------------------------------------------------------ *)
\* C24: every write to the low or the high base register of queue i makes
\* exactly one reconfiguration attempt, for slot i, on the shadow base as
\* it stands after the write; when the preconditions hold after the write
\* an empty slot gets one allocation request, and a slot holding the object
\* an earlier write created gets the destroy request for that object and
\* then one allocation request.
C24_OneAttemptPerBaseWrite ==
    [][IsBaseWrite(last')
       => LET i == BaseIndex(last'.offset)
              r == last'.reqs
              old == Vqueue(s, i)
          IN /\ Len(last'.setups) = 1
             /\ last'.setups[1].index = i
             /\ last'.setups[1].data.vcmdq_log2size
                    = Log2SizeField(ShadowBase(s', i))
             /\ last'.setups[1].data.vcmdq_base
                    = AddressField(ShadowBase(s', i))
             /\ (PreconditionsHold(s', bs_viommu, i) /\ old.state = "null")
                   => Len(r) = 1 /\ IsAlloc(r[1]) /\ r[1].vcmdq_id = i
             /\ (PreconditionsHold(s', bs_viommu, i) /\ old.state = "live")
                   => /\ Len(r) = 2
                      /\ IsDestroy(r[1]) /\ r[1].id = old.vqueue_id
                      /\ IsAlloc(r[2]) /\ r[2].vcmdq_id = i]_vars

\* the high half written after the low half: the second allocation
C24_Witness ==
    /\ IsBaseWrite(last) /\ IsHighHalf(last.offset) /\ last.size = 4
    /\ last.value = {17}
    /\ ShadowBase(s, BaseIndex(last.offset)) = {3, 30, 49}
    /\ Len(last.setups) = 1 /\ last.setups[1].old.state = "live"
    /\ Len(last.reqs) = 2
    /\ IsDestroy(last.reqs[1]) /\ last.reqs[1].ok
    /\ IsAlloc(last.reqs[2]) /\ last.reqs[2].ok
    /\ Vqueue(s, BaseIndex(last.offset)) = LiveVqueue(last.reqs[2].id)


(* ------------------------------------------------------------------ *)
(* The DRAM consumer-index mirror address                             *)
(* ------------------------------------------------------------------ *)
IsMirrorOffset(offset) ==
    LET o == AliasOffset(offset)
    IN /\ o >= A_VCMDQ0_BASE_L /\ o <= A_VCMDQ127_CONS_INDX_BASE_DRAM_H
       /\ (o - VCMDQ_BASE_BASE) % VCMDQ_STRIDE \in {8, 12}

IsMirrorLow(offset) ==
    (AliasOffset(offset) - VCMDQ_BASE_BASE) % VCMDQ_STRIDE = 8

ShadowMirror(st, i) == Word(st.vcmdq_cons_indx_base, i)

\* C25: a write to the low or the high DRAM consumer-index-mirror register
\* of queue i makes no reconfiguration attempt and issues no kernel
\* request, and a 32-bit write to one half leaves that half of the 64-bit
\* shadow value equal to the value written and the other half as it was.
C25_MirrorWriteIsShadowOnly ==
    [][(last'.op = "write" /\ IsMirrorOffset(last'.offset))
       => LET i == BaseIndex(last'.offset)
              old == ShadowMirror(s, i)
              new == ShadowMirror(s', i)
          IN /\ last'.setups = <<>> /\ last'.reqs = <<>>
             /\ kobjs' = kobjs /\ s'.vqueue = s.vqueue
             /\ (last'.size = 4 /\ IsMirrorLow(last'.offset))
                   => /\ new \cap Lo32Mask = last'.value \cap Lo32Mask
                      /\ new \cap Hi32Mask = old \cap Hi32Mask
             /\ (last'.size = 4 /\ ~IsMirrorLow(last'.offset))
                   => /\ new \cap Hi32Mask = Shl32(last'.value)
                      /\ new \cap Lo32Mask = old \cap Lo32Mask]_vars


\* C26: the descriptor a reconfiguration of slot i hands to the kernel has
\* queue id i, log2size = bits 4..0 of the shadow base and base address =
\* bits 47..5 of the shadow base; bits 63..48 of the shadow base are in no
\* request and have no part in the RAM check.
C26_DescriptorFields ==
    IsBaseWrite(last) =>
        LET i == BaseIndex(last.offset)
            base == ShadowBase(s, i)
            d == last.setups[1].data
        IN /\ d.vcmdq_id = i
           /\ d.vcmdq_log2size = base \cap (0..4)
           /\ d.vcmdq_base = base \cap (5..47)
           /\ \A k \in 1..Len(last.reqs) :
                 IsAlloc(last.reqs[k])
                    => /\ last.reqs[k].vcmdq_id = i
                       /\ last.reqs[k].vcmdq_log2size = base \cap (0..4)
                       /\ last.reqs[k].vcmdq_base = base \cap (5..47)
                       /\ last.reqs[k].vcmdq_base \cap (48..63) = {}
           /\ (last.setups[1].ret = "EINVAL")
                 <=> /\ bs_viommu # NULL
                     /\ \/ base \cap (0..4) = {}
                        \/ ~InGuestRam(base \cap (5..47))

C26_Witness ==
    /\ IsBaseWrite(last)
    /\ ShadowBase(s, BaseIndex(last.offset)) = {3, 30, 49}
    /\ Len(last.reqs) = 1 /\ IsAlloc(last.reqs[1]) /\ last.reqs[1].ok
    /\ last.reqs[1].vcmdq_id = 127
    /\ last.reqs[1].vcmdq_log2size = {3}
    /\ last.reqs[1].vcmdq_base = {30}
    /\ last.setups[1].ret = "OK"


(* ------------------------------------------------------------------ *)
(* The cached vIOMMU reference                                        *)
(* ------------------------------------------------------------------ *)
SetupSucceeded(c) ==
    IsBaseWrite(c) /\ Len(c.setups) = 1 /\ c.setups[1].ret = "OK"

\* C27: the cached vIOMMU reference s->viommu is empty until the first
\* queue setup that succeeds, that setup sets it to the SMMU's vIOMMU
\* association of the moment, and no register write or reset changes or
\* clears it afterwards.
C27_ViommuCachedOnFirstSuccess ==
    [][/\ (s.viommu = NULL /\ s'.viommu # NULL) => SetupSucceeded(last')
       /\ (s.viommu = NULL /\ SetupSucceeded(last'))
             => s'.viommu = bs_viommu /\ s'.viommu # NULL
       /\ s.viommu # NULL => s'.viommu = s.viommu]_vars


\* the setup passed its preconditions and went on to the allocation request
SetupReachedAlloc(c) ==
    /\ IsBaseWrite(c) /\ Len(c.setups) = 1
    /\ \E k \in 1..Len(c.reqs) : IsAlloc(c.reqs[k])

\* C27 as the code has it: s->viommu is empty until the first queue setup
\* that passes its preconditions and issues its allocation request, whether
\* the kernel then accepts or rejects it; that setup sets it to the SMMU's
\* vIOMMU association of the moment, and no register write or reset changes
\* or clears it afterwards.
C27_ViommuCachedOnFirstAllocation ==
    [][/\ (s.viommu = NULL /\ s'.viommu # NULL) => SetupReachedAlloc(last')
       /\ (s.viommu = NULL /\ SetupReachedAlloc(last'))
             => s'.viommu = bs_viommu /\ s'.viommu # NULL
       /\ s.viommu # NULL => s'.viommu = s.viommu]_vars

\* the reference is cached by a setup whose allocation the kernel rejected
C27_Witness ==
    /\ IsBaseWrite(last) /\ Len(last.setups) = 1
    /\ last.setups[1].ret = "ENODEV"
    /\ Len(last.reqs) = 1 /\ IsAlloc(last.reqs[1]) /\ ~last.reqs[1].ok
    /\ s.viommu = VIOMMU
    /\ kobjs = Zeroed
    /\ Vqueue(s, BaseIndex(last.offset)) = NoVqueue


(* ------------------------------------------------------------------ *)
(* Lifetime of the kernel's queue objects                             *)
(* ------------------------------------------------------------------ *)
\* C28: over base-register writes and resets a destroy request is issued
\* at most once for each queue id the kernel returned, and no slot refers
\* to a queue object that has been destroyed and released: every destroy
\* request names the object a slot holds live at the call, no call names
\* an id twice, and after the call no slot points to a released object.
C28_DestroyOncePerObject ==
    [][LET r == last'.reqs
       IN /\ \A i \in DOMAIN s'.vqueue : s'.vqueue[i].state # "freed"
          /\ \A k \in Destroys(r) :
                \E i \in DOMAIN s.vqueue : s.vqueue[i] = LiveVqueue(r[k].id)
          /\ \A k, l \in Destroys(r) : r[k].id = r[l].id => k = l]_vars


\* every queue object the kernel holds is the one its slot records
NoLeakedQueue(st, ko) ==
    \A id \in DOMAIN ko : Vqueue(st, ko[id]) = LiveVqueue(id)

EveryDestroySucceeded(r) == \A k \in Destroys(r) : r[k].ok

\* C29: as long as the kernel's destroy requests succeed, every queue
\* object the kernel holds was allocated for a slot that records exactly
\* that object, so a slot has at most one such object and no base-register
\* write or reset leaves an object that no slot records.
C29_NoLeakedQueueObject ==
    [][(NoLeakedQueue(s, kobjs) /\ EveryDestroySucceeded(last'.reqs))
       => /\ NoLeakedQueue(s', kobjs')
          /\ \A i \in Queues :
                Cardinality({id \in DOMAIN kobjs' : kobjs'[id] = i}) <= 1]_vars

\* a replacement: the old object is gone, the new one is the only one
C29_Witness ==
    /\ IsBaseWrite(last) /\ Len(last.reqs) = 2
    /\ IsDestroy(last.reqs[1]) /\ last.reqs[1].ok
    /\ IsAlloc(last.reqs[2]) /\ last.reqs[2].ok
    /\ last.reqs[2].id # last.reqs[1].id
    /\ DOMAIN kobjs = {last.reqs[2].id}
    /\ kobjs[last.reqs[2].id] = BaseIndex(last.offset)
    /\ NoLeakedQueue(s, kobjs)


(* ------------------------------------------------------------------ *)
(* The global shadow arrays                                           *)
(* ------------------------------------------------------------------ *)
\* the first and the last word of each global array window
GlobalAccesses ==
    {<<o, 4>> : o \in {A_VI_ERR_MAP, A_VI_ERR_MAP_1, A_VI_INT_MASK,
                       A_VI_INT_MASK_1, A_CMDQ_ERR_MAP, A_CMDQ_ERR_MAP_3,
                       A_CMDQ_ALLOC_MAP_0, A_CMDQ_ALLOC_MAP_127}}

NextGlobal ==
    \/ GuestWrite(GlobalAccesses, MapValues)
    \/ GuestRead(GlobalAccesses)
    \/ DeviceReset

SpecGlobal == Init /\ [][NextGlobal]_vars

\* C30: every read or write of a global register the register file handles
\* indexes its shadow array inside the array: index 0..1 for the error-map
\* words (0x14..0x18) and the interrupt-mask words (0x1c..0x20), an index
\* below the array length for the queue error-map words (0x24..0x30), and
\* 0..127 for the allocation-map entries (0x200..0x3fc).
C30_GlobalIndexInBounds ==
    (last.op \in {"read", "write"}
       /\ last.offset >= A_VI_ERR_MAP /\ last.offset <= A_CMDQ_ALLOC_MAP_127)
    => ~last.oob


(* ------------------------------------------------------------------ *)
(* The cached vIOMMU and the slots                                    *)
(* ------------------------------------------------------------------ *)
SomeSlotRecorded(st) == \E i \in DOMAIN st.vqueue : st.vqueue[i] # NoVqueue

\* C31: in every reachable state, a slot that records a queue object implies
\* that the cached vIOMMU reference is set; so a reset never destroys a
\* queue through an empty reference: each destroy request of a reset names
\* a vIOMMU, and a reset that dies has issued a request first (it did not
\* fault on s->viommu)
C31_RecordedSlotImpliesViommu ==
    /\ SomeSlotRecorded(s) => s.viommu # NULL
    /\ last.op = "reset" =>
          /\ \A k \in DOMAIN last.reqs : last.reqs[k].viommu # NULL
          /\ aborted => last.reqs # <<>>

\* a reset destroys a recorded queue after the SMMU lost its association
C31_Witness ==
    /\ last.op = "reset"
    /\ bs_viommu = NULL
    /\ last.reqs # <<>>
    /\ last.reqs[1].req = "IOMMU_DESTROY"
    /\ last.reqs[1].viommu = VIOMMU


(* ------------------------------------------------------------------ *)
(* The lazy mapping of the live page                                  *)
(* ------------------------------------------------------------------ *)
\* the handler dereferenced a pointer into the page although
\* s->vcmdq_page0 was NULL: the only fault of a page-register access
PageTouchedUnmapped(c, st, ab) ==
    /\ c.op \in {"read", "write"}
    /\ InPageWindow(c.offset)
    /\ (c.offset - 65536) % 128 \in {0, 4, 8, 12, 16, 20}
    /\ st.vcmdq_page0 = NULL
    /\ ab

\* C32: the live page is never accessed while unmapped: an access to a
\* consumer-index, producer-index, config, status, gerror or gerror-ack
\* register whose lazy mapping failed does not touch the page; and once
\* the page is mapped no later access maps it again
C32_PageNeverAccessedUnmapped ==
    [][/\ ~PageTouchedUnmapped(last', s', aborted')
       /\ s.vcmdq_page0 # NULL
          => (last'.maps = 0 /\ s'.vcmdq_page0 = s.vcmdq_page0)]_vars


(* ------------------------------------------------------------------ *)
(* Reads that follow a reset                                          *)
(* ------------------------------------------------------------------ *)
\* queue 1: a page register, the base and the DRAM mirror are written;
\* two page registers, both base halves and the mirror are read
ResetWrites ==
    {<<VCMDQ(1, A_VCMDQ0_CONS_INDX), 4>>, <<VCMDQ(1, A_VCMDQ0_BASE_L), 8>>,
     <<VCMDQ(1, A_VCMDQ0_CONS_INDX_BASE_DRAM_L), 8>>}
ResetReads ==
    {<<VCMDQ(1, A_VCMDQ0_CONS_INDX), 4>>, <<VCMDQ(1, A_VCMDQ0_STATUS), 4>>,
     <<VCMDQ(1, A_VCMDQ0_BASE_L), 4>>, <<VCMDQ(1, A_VCMDQ0_BASE_H), 4>>,
     <<VCMDQ(1, A_VCMDQ0_CONS_INDX_BASE_DRAM_L), 4>>}

NextReset ==
    \/ GuestWrite(ResetWrites, {{3, 30, 33}})
    \/ GuestRead(ResetReads)
    \/ DeviceReset
    \/ SmmuViommu

SpecReset == Init /\ [][NextReset]_vars

\* C33: a guest read of a per-queue register (consumer index, producer
\* index, config, status, gerror, gerror-ack, base, DRAM mirror) that
\* immediately follows a device reset returns the power-on default 0
C33_ReadAfterResetIsZero ==
    [][(last.op = "reset" /\ last'.op = "read" /\ IsPerQueueOffset(last'.offset))
       => (~aborted' /\ last'.ret = {})]_vars

====
